---- MODULE Spec2Model ----
(***************************************************************************)
(* Verification model of ai-voice-interviewer: the interview planner, the  *)
(* interview session state machine, the text functions, and the services   *)
(* that keep interviews and applications in the database.                  *)
(*                                                                         *)
(* Representation.                                                         *)
(*   - A text (Python str that is scanned by a regular expression) is a    *)
(*     sequence of one-character strings.  Tokens, keywords and terms are  *)
(*     texts too.                                                          *)
(*   - Optional values: None is the empty tuple, a present value x is the  *)
(*     one-element tuple <<x>>.                                            *)
(*   - A question is a record [template, arg]: the f-string of the source  *)
(*     and the text substituted into it (the empty text for a fixed        *)
(*     question).                                                          *)
(*   - A datetime is a record [sec, micro] (UTC).                          *)
(***************************************************************************)
EXTENDS Integers, Sequences, FiniteSets, TLC

VARIABLES
    phase,            \* session machine: "idle" (engine built) | "running"
    state,            \* the InterviewSessionState of the running session
    result,           \* outcome of the last engine call (return value / raise)
    planned,          \* history: the questions the planner returned at start
    submitted,        \* history: the answers accepted so far, in order
    requested,        \* history: the max_questions the session was started with
    job_description,  \* planner run: argument job_description
    resume_text,      \* planner run: argument resume_text (Optional)
    max_questions,    \* planner run: argument max_questions
    plan,             \* planner run: the returned plan
    plan_pc,          \* planner run: "off" | "call" | "returned"
    fn_in,            \* function run: the arguments of the call
    fn_out,           \* function run: the outcome of the call (Optional)
    fn_pc,            \* function run: "off" or the next step of the run
    db,               \* service run: the tables of the database
    calls             \* service run: the frame of each service request

vars == <<phase, state, result, planned, submitted, requested,
          job_description, resume_text, max_questions, plan, plan_pc,
          fn_in, fn_out, fn_pc, db, calls>>

sessionVars == <<phase, state, result, planned, submitted, requested>>
planVars == <<job_description, resume_text, max_questions, plan, plan_pc>>
fnVars == <<fn_in, fn_out, fn_pc>>
storeVars == <<db, calls>>

\* no database is attached and no service request was made
StoreOff ==
    /\ db = <<>>
    /\ calls = <<>>

(***************************************************************************)
(* Bounds of the model.                                                    *)
(***************************************************************************)
MaxQuestions == 7        \* largest max_questions passed to the planner
MaxJobPieces == 2        \* job descriptions: at most this many pieces
MaxResumePieces == 2     \* resumes: at most this many pieces
MaxSessionPieces == 1    \* texts used to start a session: at most this many pieces
MaxSec == 0              \* clock readings: seconds 0..MaxSec

(***************************************************************************)
(* Generic helpers.                                                        *)
(***************************************************************************)
None == <<>>
Some(x) == <<x>>

Range(s) == { s[i] : i \in 1..Len(s) }

Min(a, b) == IF a <= b THEN a ELSE b
Max(a, b) == IF a >= b THEN a ELSE b

\* Python s[:n]
SliceTo(s, n) ==
    IF n >= 0 THEN SubSeq(s, 1, Min(n, Len(s)))
    ELSE SubSeq(s, 1, Max(Len(s) + n, 0))

\* Python s[i:] for a 1-based start position i
SliceFrom(s, i) == SubSeq(s, i, Len(s))

RECURSIVE Concat(_)
Concat(ss) == IF ss = <<>> THEN <<>> ELSE Head(ss) \o Concat(Tail(ss))

\* all tuples over S of length 0..n
RECURSIVE TuplesUpTo(_, _)
TuplesUpTo(S, n) ==
    IF n = 0 THEN { <<>> }
    ELSE LET shorter == TuplesUpTo(S, n - 1)
         IN  shorter \cup { Append(t, x) : t \in shorter, x \in S }

(***************************************************************************)
(* Characters.                                                             *)
(***************************************************************************)
UpperCase == <<"A", "B", "C", "D", "E", "F", "G", "H", "I", "J", "K", "L", "M",
               "N", "O", "P", "Q", "R", "S", "T", "U", "V", "W", "X", "Y", "Z">>
LowerCase == <<"a", "b", "c", "d", "e", "f", "g", "h", "i", "j", "k", "l", "m",
               "n", "o", "p", "q", "r", "s", "t", "u", "v", "w", "x", "y", "z">>
Digits == <<"0", "1", "2", "3", "4", "5", "6", "7", "8", "9">>

\* the characters of the model's texts in code-point order
CodePoints == <<"\t", "\n", " ", "\"", "#", "+", "-", ".", "/">> \o Digits \o UpperCase
              \o <<"_">> \o LowerCase \o <<"BROKENBAR", "MIDDOT", "ACIRC", "BULLET", "EURO", "CHECK">>

Code == [c \in Range(CodePoints) |-> CHOOSE i \in 1..Len(CodePoints) : CodePoints[i] = c]

UpperToLower == [c \in Range(UpperCase) |-> LowerCase[CHOOSE i \in 1..26 : UpperCase[i] = c]]

\* str.lower() of one character
LowerChar(c) == IF c \in DOMAIN UpperToLower THEN UpperToLower[c] ELSE c

\* str.lower()
lower(text) == [i \in 1..Len(text) |-> LowerChar(text[i])]

\* the class [a-zA-Z0-9]
IsAlnum(c) == c \in Range(UpperCase) \cup Range(LowerCase) \cup Range(Digits)

\* the class [a-z0-9]
IsLowerAlnum(c) == c \in Range(LowerCase) \cup Range(Digits)

\* the class \w of the characters of the model (str patterns)
IsWordChar(c) == IsAlnum(c) \/ c = "_"

\* the class \s, and the characters str.split() / str.strip() treat as blank
IsSpace(c) == c \in {" ", "\n", "\t"}

\* the class \d
IsDigit(c) == c \in Range(Digits)

\* str < str
RECURSIVE TextLess(_, _)
TextLess(a, b) ==
    IF b = <<>> THEN FALSE
    ELSE IF a = <<>> THEN TRUE
    ELSE IF Head(a) = Head(b) THEN TextLess(Tail(a), Tail(b))
    ELSE Code[Head(a)] < Code[Head(b)]

(***************************************************************************)
(* Tokenizer (domain/policies/shortlisting.py).                            *)
(***************************************************************************)
\* _WORD_RE.findall(text): the maximal runs of [a-zA-Z0-9], left to right;
\* one step per run, from position i on
RECURSIVE WordRuns(_, _, _)
WordRuns(text, i, acc) ==
    IF \A k \in i..Len(text) : ~ IsAlnum(text[k]) THEN acc
    ELSE LET first == CHOOSE k \in i..Len(text) :
                          IsAlnum(text[k]) /\ \A j \in i..(k - 1) : ~ IsAlnum(text[j])
             stop == IF \A k \in first..Len(text) : IsAlnum(text[k]) THEN Len(text) + 1
                     ELSE CHOOSE k \in first..Len(text) :
                              ~ IsAlnum(text[k]) /\ \A j \in first..(k - 1) : IsAlnum(text[j])
         IN  WordRuns(text, stop, Append(acc, SubSeq(text, first, stop - 1)))

_WORD_RE_findall(text) == WordRuns(text, 1, <<>>)

\* mutation: the runs are returned as they are written
tokenize_case_kept(text) == _WORD_RE_findall(text)

tokenize(text) ==
    LET runs == _WORD_RE_findall(text)
    IN  [k \in 1..Len(runs) |-> lower(runs[k])]

(***************************************************************************)
(* String primitives used by the extractors.                               *)
(***************************************************************************)
\* text[i:i+len(pat)] == pat for a 1-based position i
MatchAt(text, i, pat) ==
    /\ i >= 1
    /\ i + Len(pat) - 1 <= Len(text)
    /\ \A k \in 1..Len(pat) : text[i + k - 1] = pat[k]

\* pat in text
Contains(text, pat) == \E i \in 1..(Len(text) - Len(pat) + 1) : MatchAt(text, i, pat)

\* the assertion \b just before position p (1..Len(text)+1)
WordBoundary(text, p) ==
    LET before == p > 1 /\ IsWordChar(text[p - 1])
        after == p <= Len(text) /\ IsWordChar(text[p])
    IN  before # after

\* str.strip()
RECURSIVE lstrip(_)
lstrip(text) ==
    IF text # <<>> /\ IsSpace(Head(text)) THEN lstrip(Tail(text)) ELSE text

RECURSIVE rstrip(_)
rstrip(text) ==
    IF text # <<>> /\ IsSpace(text[Len(text)]) THEN rstrip(SubSeq(text, 1, Len(text) - 1))
    ELSE text

strip(text) == rstrip(lstrip(text))

\* str.split(sep) for a one-character separator
RECURSIVE SplitOn(_, _, _, _, _)
SplitOn(text, sep, i, cur, acc) ==
    IF i > Len(text) THEN Append(acc, cur)
    ELSE IF text[i] = sep THEN SplitOn(text, sep, i + 1, <<>>, Append(acc, cur))
    ELSE SplitOn(text, sep, i + 1, Append(cur, text[i]), acc)

split_sep(text, sep) == SplitOn(text, sep, 1, <<>>, <<>>)

\* str.split(): the maximal runs of non-blank characters; one step per run,
\* from position i on
RECURSIVE SplitBlank(_, _, _)
SplitBlank(text, i, acc) ==
    IF \A k \in i..Len(text) : IsSpace(text[k]) THEN acc
    ELSE LET first == CHOOSE k \in i..Len(text) :
                          ~ IsSpace(text[k]) /\ \A j \in i..(k - 1) : IsSpace(text[j])
             stop == IF \A k \in first..Len(text) : ~ IsSpace(text[k]) THEN Len(text) + 1
                     ELSE CHOOSE k \in first..Len(text) :
                              IsSpace(text[k]) /\ \A j \in first..(k - 1) : ~ IsSpace(text[j])
         IN  SplitBlank(text, stop, Append(acc, SubSeq(text, first, stop - 1)))

split(text) == SplitBlank(text, 1, <<>>)

\* " ".join(words)
RECURSIVE join_space(_)
join_space(words) ==
    IF words = <<>> THEN <<>>
    ELSE IF Len(words) = 1 THEN words[1]
    ELSE words[1] \o <<" ">> \o join_space(Tail(words))

\* list(dict.fromkeys(xs)): drop repeated elements, keep first occurrences
RECURSIVE Dedupe(_, _)
Dedupe(xs, acc) ==
    IF xs = <<>> THEN acc
    ELSE Dedupe(Tail(xs), IF Head(xs) \in Range(acc) THEN acc ELSE Append(acc, Head(xs)))

fromkeys(xs) == Dedupe(xs, <<>>)

\* the elements of a sequence that satisfy a test, in order
FilterSeq(xs, Keep(_)) ==
    LET chosen == { k \in 1..Len(xs) : Keep(xs[k]) }
    IN  [n \in 1..Cardinality(chosen) |->
            xs[CHOOSE k \in chosen : Cardinality({ m \in chosen : m < k }) = n - 1]]

(***************************************************************************)
(* Skill extractor (nlp/skill_extractor.py).                               *)
(* The vocabularies are Python sets: their iteration order is unspecified, *)
(* the sequences below list them in the order of the source literal.       *)
(***************************************************************************)
_COMMON_TECH_SKILLS ==
    << <<"p", "y", "t", "h", "o", "n">>, <<"j", "a", "v", "a">>, <<"j", "a", "v", "a", "s", "c", "r", "i", "p", "t">>,
       <<"c", "+", "+">>, <<"c", "#">>, <<"r", "u", "b", "y">>,
       <<"g", "o">>, <<"r", "u", "s", "t">>, <<"s", "w", "i", "f", "t">>,
       <<"k", "o", "t", "l", "i", "n">>, <<"p", "h", "p">>, <<"s", "c", "a", "l", "a">>,
       <<"t", "y", "p", "e", "s", "c", "r", "i", "p", "t">>, <<"r">>, <<"s", "q", "l">>,
       <<"h", "t", "m", "l">>, <<"c", "s", "s">>, <<"d", "j", "a", "n", "g", "o">>,
       <<"f", "l", "a", "s", "k">>, <<"f", "a", "s", "t", "a", "p", "i">>, <<"s", "p", "r", "i", "n", "g">>,
       <<"r", "e", "a", "c", "t">>, <<"a", "n", "g", "u", "l", "a", "r">>, <<"v", "u", "e">>,
       <<"n", "o", "d", "e", "j", "s">>, <<"e", "x", "p", "r", "e", "s", "s">>, <<"r", "a", "i", "l", "s">>,
       <<"n", "u", "m", "p", "y">>, <<"p", "a", "n", "d", "a", "s">>, <<"t", "e", "n", "s", "o", "r", "f", "l", "o", "w">>,
       <<"p", "y", "t", "o", "r", "c", "h">>, <<"k", "e", "r", "a", "s">>, <<"s", "c", "i", "k", "i", "t", "-", "l", "e", "a", "r", "n">>,
       <<"l", "a", "r", "a", "v", "e", "l">>, <<"a", "s", "p", ".", "n", "e", "t">>, <<"j", "q", "u", "e", "r", "y">>,
       <<"b", "o", "o", "t", "s", "t", "r", "a", "p">>, <<"a", "w", "s">>, <<"a", "z", "u", "r", "e">>,
       <<"g", "c", "p">>, <<"d", "o", "c", "k", "e", "r">>, <<"k", "u", "b", "e", "r", "n", "e", "t", "e", "s">>,
       <<"j", "e", "n", "k", "i", "n", "s">>, <<"g", "i", "t">>, <<"c", "i", "/", "c", "d">>,
       <<"t", "e", "r", "r", "a", "f", "o", "r", "m">>, <<"a", "n", "s", "i", "b", "l", "e">>, <<"l", "i", "n", "u", "x">>,
       <<"b", "a", "s", "h">>, <<"s", "h", "e", "l", "l">>, <<"n", "g", "i", "n", "x">>,
       <<"a", "p", "a", "c", "h", "e">>, <<"p", "o", "s", "t", "g", "r", "e", "s", "q", "l">>, <<"m", "y", "s", "q", "l">>,
       <<"m", "o", "n", "g", "o", "d", "b">>, <<"r", "e", "d", "i", "s">>, <<"s", "q", "l", "i", "t", "e">>,
       <<"o", "r", "a", "c", "l", "e">>, <<"e", "l", "a", "s", "t", "i", "c", "s", "e", "a", "r", "c", "h">>, <<"c", "a", "s", "s", "a", "n", "d", "r", "a">>,
       <<"d", "y", "n", "a", "m", "o", "d", "b">>, <<"n", "e", "o", "4", "j">>, <<"f", "i", "r", "e", "b", "a", "s", "e">>,
       <<"m", "a", "c", "h", "i", "n", "e", " ", "l", "e", "a", "r", "n", "i", "n", "g">>, <<"d", "e", "e", "p", " ", "l", "e", "a", "r", "n", "i", "n", "g">>, <<"n", "l", "p">>,
       <<"d", "a", "t", "a", " ", "s", "c", "i", "e", "n", "c", "e">>, <<"d", "a", "t", "a", " ", "a", "n", "a", "l", "y", "s", "i", "s">>, <<"s", "t", "a", "t", "i", "s", "t", "i", "c", "s">>,
       <<"m", "a", "t", "p", "l", "o", "t", "l", "i", "b">>, <<"s", "e", "a", "b", "o", "r", "n">>, <<"t", "a", "b", "l", "e", "a", "u">>,
       <<"p", "o", "w", "e", "r", " ", "b", "i">>, <<"s", "p", "a", "r", "k">>, <<"h", "a", "d", "o", "o", "p">>,
       <<"j", "u", "p", "y", "t", "e", "r">>, <<"r", "m", "a", "r", "k", "d", "o", "w", "n">>, <<"s", "a", "s">>,
       <<"s", "p", "s", "s">>, <<"a", "p", "i">>, <<"r", "e", "s", "t">>,
       <<"g", "r", "a", "p", "h", "q", "l">>, <<"m", "i", "c", "r", "o", "s", "e", "r", "v", "i", "c", "e", "s">>, <<"a", "g", "i", "l", "e">>,
       <<"s", "c", "r", "u", "m">>, <<"k", "a", "n", "b", "a", "n">>, <<"t", "d", "d">>,
       <<"b", "d", "d">>, <<"u", "n", "i", "t", " ", "t", "e", "s", "t", "i", "n", "g">>, <<"i", "n", "t", "e", "g", "r", "a", "t", "i", "o", "n", " ", "t", "e", "s", "t", "i", "n", "g">>,
       <<"g", "i", "t", "f", "l", "o", "w">>, <<"d", "e", "s", "i", "g", "n", " ", "p", "a", "t", "t", "e", "r", "n", "s">> >>

_SOFT_SKILLS ==
    << <<"l", "e", "a", "d", "e", "r", "s", "h", "i", "p">>, <<"c", "o", "m", "m", "u", "n", "i", "c", "a", "t", "i", "o", "n">>,
       <<"t", "e", "a", "m", "w", "o", "r", "k">>, <<"p", "r", "o", "b", "l", "e", "m", " ", "s", "o", "l", "v", "i", "n", "g">>,
       <<"c", "r", "i", "t", "i", "c", "a", "l", " ", "t", "h", "i", "n", "k", "i", "n", "g">>, <<"a", "d", "a", "p", "t", "a", "b", "i", "l", "i", "t", "y">>,
       <<"t", "i", "m", "e", " ", "m", "a", "n", "a", "g", "e", "m", "e", "n", "t">>, <<"c", "o", "l", "l", "a", "b", "o", "r", "a", "t", "i", "o", "n">>,
       <<"a", "n", "a", "l", "y", "t", "i", "c", "a", "l">>, <<"c", "r", "e", "a", "t", "i", "v", "i", "t", "y">>,
       <<"p", "r", "o", "j", "e", "c", "t", " ", "m", "a", "n", "a", "g", "e", "m", "e", "n", "t">>, <<"p", "u", "b", "l", "i", "c", " ", "s", "p", "e", "a", "k", "i", "n", "g">>,
       <<"n", "e", "g", "o", "t", "i", "a", "t", "i", "o", "n">>, <<"d", "e", "c", "i", "s", "i", "o", "n", " ", "m", "a", "k", "i", "n", "g">>,
       <<"s", "t", "r", "a", "t", "e", "g", "i", "c", " ", "t", "h", "i", "n", "k", "i", "n", "g">>, <<"m", "e", "n", "t", "o", "r", "i", "n", "g">>,
       <<"c", "o", "a", "c", "h", "i", "n", "g">>, <<"i", "n", "t", "e", "r", "p", "e", "r", "s", "o", "n", "a", "l">>,
       <<"o", "r", "g", "a", "n", "i", "z", "a", "t", "i", "o", "n", "a", "l">> >>

\* re.search(r"\b" + re.escape(skill) + r"\b", text_lower)
SkillOccurs(text_lower, skill) ==
    \E i \in 1..(Len(text_lower) - Len(skill) + 1) :
        /\ text_lower[i] = skill[1]
        /\ MatchAt(text_lower, i, skill)
        /\ WordBoundary(text_lower, i)
        /\ WordBoundary(text_lower, i + Len(skill))

_extract_keyword_skills(text, skill_dict) ==
    LET text_lower == lower(text)
        Found(skill) == SkillOccurs(text_lower, skill)
    IN  FilterSeq(skill_dict, Found)

\* the end of the run of \s (resp. \d) characters that starts at position p:
\* the first position >= p whose character is not in the class
RECURSIVE SpaceRunEnd(_, _)
SpaceRunEnd(text, p) ==
    IF p <= Len(text) /\ IsSpace(text[p]) THEN SpaceRunEnd(text, p + 1) ELSE p

RECURSIVE DigitRunEnd(_, _)
DigitRunEnd(text, p) ==
    IF p <= Len(text) /\ IsDigit(text[p]) THEN DigitRunEnd(text, p + 1) ELSE p

NoMatch == [end |-> 0, value |-> <<>>]

\* (\.\d+)* from position p; last is what group 1 captured so far
RECURSIVE VersionTail(_, _, _)
VersionTail(text, p, last) ==
    IF p + 1 <= Len(text) /\ text[p] = "." /\ IsDigit(text[p + 1])
    THEN LET q == DigitRunEnd(text, p + 1)
         IN  VersionTail(text, q, SubSeq(text, p, q - 1))
    ELSE [end |-> p, value |-> last]

\* name\s*\d+(\.\d+)* at position i; re.findall reports group 1 of a
\* pattern that has one group, here the last (\.\d+) or "" if there is none
VersionMatch(text, i, name) ==
    IF ~ MatchAt(text, i, name) THEN NoMatch
    ELSE LET p == SpaceRunEnd(text, i + Len(name))
         IN  IF p <= Len(text) /\ IsDigit(text[p])
             THEN VersionTail(text, DigitRunEnd(text, p), <<>>)
             ELSE NoMatch

\* first\s*second at position i (no \s* when second is empty); the pattern
\* has no group, re.findall reports the whole match
PhraseMatch(text, i, first, second) ==
    IF ~ MatchAt(text, i, first) THEN NoMatch
    ELSE IF second = <<>> THEN [end |-> i + Len(first), value |-> first]
    ELSE LET p == SpaceRunEnd(text, i + Len(first))
         IN  IF MatchAt(text, p, second)
             THEN [end |-> p + Len(second), value |-> SubSeq(text, i, p + Len(second) - 1)]
             ELSE NoMatch

\* one entry per element of _SKILL_PATTERNS; names / first are the
\* alternatives the pattern tries at a position, in the order of the regex
_SKILL_PATTERNS ==
    << [kind |-> "version", names |-> << <<"p", "y", "t", "h", "o", "n">> >>, second |-> <<>>],
       [kind |-> "version", names |-> << <<"j", "a", "v", "a">> >>, second |-> <<>>],
       [kind |-> "version", names |-> << <<"n", "o", "d", "e", "j", "s">>, <<"n", "o", "d", "e">> >>,
        second |-> <<>>],
       [kind |-> "version", names |-> << <<"r", "e", "a", "c", "t">> >>, second |-> <<>>],
       [kind |-> "version", names |-> << <<"a", "n", "g", "u", "l", "a", "r">> >>, second |-> <<>>],
       [kind |-> "version", names |-> << <<"d", "j", "a", "n", "g", "o">> >>, second |-> <<>>],
       [kind |-> "phrase", names |-> << <<"a", "w", "s">> >>,
        second |-> <<"c", "e", "r", "t", "i", "f", "i", "e", "d">>],
       [kind |-> "phrase", names |-> << <<"a", "z", "u", "r", "e">> >>,
        second |-> <<"c", "e", "r", "t", "i", "f", "i", "e", "d">>],
       [kind |-> "phrase", names |-> << <<"g", "c", "p">> >>,
        second |-> <<"c", "e", "r", "t", "i", "f", "i", "e", "d">>],
       [kind |-> "phrase", names |-> << <<"p", "m", "p">> >>, second |-> <<>>],
       [kind |-> "phrase", names |-> << <<"p", "r", "i", "n", "c", "e", "2">> >>, second |-> <<>>],
       [kind |-> "phrase", names |-> << <<"s", "c", "r", "u", "m">> >>,
        second |-> <<"m", "a", "s", "t", "e", "r">>],
       [kind |-> "phrase", names |-> << <<"a", "g", "i", "l", "e">> >>,
        second |-> <<"c", "e", "r", "t", "i", "f", "i", "e", "d">>] >>

\* the match of one pattern at position i: its alternatives in order
RECURSIVE PatternMatchAt(_, _, _, _)
PatternMatchAt(text, i, pattern, k) ==
    IF k > Len(pattern.names) THEN NoMatch
    ELSE LET m == IF pattern.kind = "version"
                  THEN VersionMatch(text, i, pattern.names[k])
                  ELSE PhraseMatch(text, i, pattern.names[k], pattern.second)
         IN  IF m.end # 0 THEN m ELSE PatternMatchAt(text, i, pattern, k + 1)

\* re.findall(pattern, text, re.IGNORECASE), lowercased: the matches are
\* found on the lowercased text, which has the same length and positions
RECURSIVE PatternFindAll(_, _, _, _)
PatternFindAll(text_lower, i, pattern, acc) ==
    IF i > Len(text_lower) THEN acc
    ELSE IF \A k \in 1..Len(pattern.names) : text_lower[i] # pattern.names[k][1]
         THEN PatternFindAll(text_lower, i + 1, pattern, acc)
    ELSE LET m == PatternMatchAt(text_lower, i, pattern, 1)
         IN  IF m.end = 0 THEN PatternFindAll(text_lower, i + 1, pattern, acc)
             ELSE PatternFindAll(text_lower, m.end, pattern, Append(acc, m.value))

_find_skills_by_pattern(text, patterns) ==
    UNION { Range(PatternFindAll(lower(text), 1, patterns[k], <<>>)) : k \in 1..Len(patterns) }

\* a set of texts as a sequence in ascending str order
RECURSIVE SortedTexts(_)
SortedTexts(S) ==
    IF S = {} THEN <<>>
    ELSE LET least == CHOOSE x \in S : \A y \in S \ {x} : TextLess(x, y)
         IN  <<least>> \o SortedTexts(S \ {least})

\* iteration over the set pattern_skills is taken in ascending order
extract_skills(text) ==
    LET tech_keywords == _extract_keyword_skills(text, _COMMON_TECH_SKILLS)
        soft_keywords == _extract_keyword_skills(text, _SOFT_SKILLS)
        pattern_skills == _find_skills_by_pattern(text, _SKILL_PATTERNS)
        NotKeyword(s) == s \notin Range(tech_keywords)
        tech_skills == fromkeys(tech_keywords \o FilterSeq(SortedTexts(pattern_skills), NotKeyword))
        soft_skills == fromkeys(soft_keywords)
    IN  [technical |-> tech_skills,
         soft |-> soft_skills,
         total_count |-> Len(tech_skills) + Len(soft_skills)]

(***************************************************************************)
(* Experience extractor (nlp/experience_extractor.py): the two fields the  *)
(* planner reads, achievements and job_titles.                             *)
(***************************************************************************)
\* the bullet glyphs of _BULLET_POINT_PATTERNS, in pattern order
BulletGlyphs == <<"BULLET", "-", "MIDDOT", "CHECK">>

\* the end of the line that contains position p: the last position before
\* the next "\n" (p - 1 if text[p] is "\n" itself)
RECURSIVE LineEnd(_, _)
LineEnd(text, p) ==
    IF p <= Len(text) /\ text[p] # "\n" THEN LineEnd(text, p + 1) ELSE p - 1

\* the last position in from..to whose character is not "\n" (0 if none)
RECURSIVE LastNonNewline(_, _, _)
LastNonNewline(text, from, to) ==
    IF to < from THEN 0
    ELSE IF text[to] # "\n" THEN to
    ELSE LastNonNewline(text, from, to - 1)

\* glyph\s*[^\n]+ with the glyph at position i: the last position of the
\* match, 0 if there is none.  \s* is greedy and may run over newlines; when
\* that leaves nothing for [^\n]+ it gives characters back one at a time.
BulletMatchEnd(text, i) ==
    LET j == SpaceRunEnd(text, i + 1)
    IN  IF j <= Len(text) THEN LineEnd(text, j)
        ELSE LastNonNewline(text, i + 1, Len(text))

\* re.findall(glyph + r"\s*[^\n]+", text)
RECURSIVE BulletFindAll(_, _, _, _)
BulletFindAll(text, glyph, i, acc) ==
    IF i > Len(text) THEN acc
    ELSE IF text[i] # glyph THEN BulletFindAll(text, glyph, i + 1, acc)
    ELSE LET e == BulletMatchEnd(text, i)
         IN  IF e = 0 THEN BulletFindAll(text, glyph, i + 1, acc)
             ELSE BulletFindAll(text, glyph, e + 1, Append(acc, SubSeq(text, i, e)))

\* re.sub(r"^[glyphs]\s*", "", m).strip()
CleanBullet(m) ==
    IF m # <<>> /\ m[1] \in Range(BulletGlyphs)
    THEN strip(SliceFrom(m, SpaceRunEnd(m, 2)))
    ELSE strip(m)

_extract_bullets(text) ==
    LET Cleaned(glyph) ==
            LET matches == BulletFindAll(text, glyph, 1, <<>>)
            IN  [k \in 1..Len(matches) |-> CleanBullet(matches[k])]
    IN  Concat([g \in 1..Len(BulletGlyphs) |-> Cleaned(BulletGlyphs[g])])

_TITLE_KEYWORDS ==
    << <<"e", "n", "g", "i", "n", "e", "e", "r">>, <<"d", "e", "v", "e", "l", "o", "p", "e", "r">>, <<"m", "a", "n", "a", "g", "e", "r">>,
       <<"a", "n", "a", "l", "y", "s", "t">>, <<"d", "i", "r", "e", "c", "t", "o", "r">>, <<"l", "e", "a", "d">>,
       <<"s", "e", "n", "i", "o", "r">>, <<"j", "u", "n", "i", "o", "r">>, <<"p", "r", "i", "n", "c", "i", "p", "a", "l">>,
       <<"a", "r", "c", "h", "i", "t", "e", "c", "t">>, <<"c", "o", "n", "s", "u", "l", "t", "a", "n", "t">>, <<"s", "p", "e", "c", "i", "a", "l", "i", "s", "t">>,
       <<"c", "o", "o", "r", "d", "i", "n", "a", "t", "o", "r">>, <<"a", "d", "m", "i", "n", "i", "s", "t", "r", "a", "t", "o", "r">>, <<"o", "f", "f", "i", "c", "e", "r">>,
       <<"a", "s", "s", "i", "s", "t", "a", "n", "t">>, <<"h", "e", "a", "d">>, <<"c", "h", "i", "e", "f">> >>

\* _TITLE_PATTERNS: each pattern is a sequence of items, an alternation
\* (?:a|b|...) that may be optional, or a run of blanks \s* / \s+ (least =
\* 0 / 1).  Inside an option "DOTOPT" stands for .? and "WSPLUS" for \s+.
_TITLE_PATTERNS ==
    << << [item |-> "alt", options |-> << <<"S", "e", "n", "i", "o", "r">>,
                <<"J", "u", "n", "i", "o", "r">>,
                <<"P", "r", "i", "n", "c", "i", "p", "a", "l">>,
                <<"L", "e", "a", "d">>,
                <<"S", "t", "a", "f", "f">> >>,
          optional |-> TRUE, least |-> 0],
          [item |-> "ws", options |-> <<>>, optional |-> FALSE, least |-> 0],
          [item |-> "alt", options |-> << <<"S", "o", "f", "t", "w", "a", "r", "e">>,
                <<"F", "u", "l", "l", "DOTOPT", "S", "t", "a", "c", "k">>,
                <<"B", "a", "c", "k", "e", "n", "d">>,
                <<"F", "r", "o", "n", "t", "e", "n", "d">>,
                <<"D", "a", "t", "a">>,
                <<"M", "L">>,
                <<"D", "e", "v", "O", "p", "s">>,
                <<"C", "l", "o", "u", "d">> >>,
          optional |-> TRUE, least |-> 0],
          [item |-> "ws", options |-> <<>>, optional |-> FALSE, least |-> 0],
          [item |-> "alt", options |-> << <<"E", "n", "g", "i", "n", "e", "e", "r">>,
                <<"D", "e", "v", "e", "l", "o", "p", "e", "r">>,
                <<"M", "a", "n", "a", "g", "e", "r">>,
                <<"A", "r", "c", "h", "i", "t", "e", "c", "t">>,
                <<"A", "n", "a", "l", "y", "s", "t">>,
                <<"C", "o", "n", "s", "u", "l", "t", "a", "n", "t">> >>,
          optional |-> FALSE, least |-> 0] >>,
       << [item |-> "alt", options |-> << <<"E", "n", "g", "i", "n", "e", "e", "r", "i", "n", "g">>,
                <<"T", "e", "c", "h", "n", "i", "c", "a", "l">>,
                <<"P", "r", "o", "d", "u", "c", "t">>,
                <<"P", "r", "o", "j", "e", "c", "t">> >>,
          optional |-> FALSE, least |-> 0],
          [item |-> "ws", options |-> <<>>, optional |-> FALSE, least |-> 1],
          [item |-> "alt", options |-> << <<"M", "a", "n", "a", "g", "e", "r">> >>,
          optional |-> FALSE, least |-> 0] >>,
       << [item |-> "alt", options |-> << <<"D", "i", "r", "e", "c", "t", "o", "r">>,
                <<"V", "P">> >>,
          optional |-> FALSE, least |-> 0],
          [item |-> "ws", options |-> <<>>, optional |-> FALSE, least |-> 1],
          [item |-> "alt", options |-> << <<"o", "f", "WSPLUS">> >>,
          optional |-> TRUE, least |-> 0],
          [item |-> "alt", options |-> << <<"E", "n", "g", "i", "n", "e", "e", "r", "i", "n", "g">>,
                <<"T", "e", "c", "h", "n", "o", "l", "o", "g", "y">>,
                <<"P", "r", "o", "d", "u", "c", "t">>,
                <<"O", "p", "e", "r", "a", "t", "i", "o", "n", "s">> >>,
          optional |-> FALSE, least |-> 0] >>,
       << [item |-> "alt", options |-> << <<"D", "a", "t", "a">>,
                <<"M", "L">>,
                <<"A", "I">> >>,
          optional |-> FALSE, least |-> 0],
          [item |-> "ws", options |-> <<>>, optional |-> FALSE, least |-> 1],
          [item |-> "alt", options |-> << <<"S", "c", "i", "e", "n", "t", "i", "s", "t">> >>,
          optional |-> FALSE, least |-> 0] >> >>

\* the end (first position after the match) of one option of an alternation
\* matched at position pos, 0 if it does not match there
RECURSIVE OptionEnd(_, _, _, _)
OptionEnd(text, pos, option, k) ==
    IF k > Len(option) THEN pos
    ELSE IF option[k] = "DOTOPT"
         THEN LET taken == IF pos <= Len(text) /\ text[pos] # "\n"
                           THEN OptionEnd(text, pos + 1, option, k + 1) ELSE 0
              IN  IF taken # 0 THEN taken ELSE OptionEnd(text, pos, option, k + 1)
    ELSE IF option[k] = "WSPLUS"
         THEN IF pos <= Len(text) /\ IsSpace(text[pos])
              THEN OptionEnd(text, SpaceRunEnd(text, pos), option, k + 1) ELSE 0
    ELSE IF pos <= Len(text) /\ text[pos] = option[k]
         THEN OptionEnd(text, pos + 1, option, k + 1)
    ELSE 0

\* backtracking match of items[k..] at position pos: the end of the match
\* the regex engine finds first, 0 if there is none.  An alternation tries
\* its options in order and, when optional, the empty match last; a run of
\* blanks is greedy and gives characters back one at a time (q counts down).
RECURSIVE ItemsEnd(_, _, _, _)
RECURSIVE AltEnd(_, _, _, _, _)
RECURSIVE BlankEnd(_, _, _, _, _)
ItemsEnd(text, pos, items, k) ==
    IF k > Len(items) THEN pos
    ELSE IF items[k].item = "alt" THEN AltEnd(text, pos, items, k, 1)
    ELSE BlankEnd(text, pos, items, k, SpaceRunEnd(text, pos))

AltEnd(text, pos, items, k, o) ==
    IF o > Len(items[k].options)
    THEN (IF items[k].optional THEN ItemsEnd(text, pos, items, k + 1) ELSE 0)
    ELSE LET e == OptionEnd(text, pos, items[k].options[o], 1)
             rest == IF e = 0 THEN 0 ELSE ItemsEnd(text, e, items, k + 1)
         IN  IF rest # 0 THEN rest ELSE AltEnd(text, pos, items, k, o + 1)

BlankEnd(text, pos, items, k, q) ==
    IF q < pos + items[k].least THEN 0
    ELSE LET rest == ItemsEnd(text, q, items, k + 1)
         IN  IF rest # 0 THEN rest ELSE BlankEnd(text, pos, items, k, q - 1)

\* re.findall(pattern, text) for a pattern without capturing groups
RECURSIVE TitleFindAll(_, _, _, _)
TitleFindAll(text, items, i, acc) ==
    IF i > Len(text) THEN acc
    ELSE LET e == ItemsEnd(text, i, items, 1)
         IN  IF e = 0 THEN TitleFindAll(text, items, i + 1, acc)
             ELSE TitleFindAll(text, items, e, Append(acc, SubSeq(text, i, e - 1)))

\* the line scan of _extract_job_titles: a stripped line is a title when it
\* contains a title keyword (case-insensitively) and has at most 5 words
LineTitles(text) ==
    LET lines == split_sep(text, "\n")
        stripped == [k \in 1..Len(lines) |-> strip(lines[k])]
        LooksLikeTitle(line) ==
            /\ \E k \in 1..Len(_TITLE_KEYWORDS) : Contains(lower(line), lower(_TITLE_KEYWORDS[k]))
            /\ Len(split(line)) <= 5
    IN  FilterSeq(stripped, LooksLikeTitle)

_extract_job_titles(text) ==
    LET pattern_titles ==
            Concat([p \in 1..Len(_TITLE_PATTERNS) |-> TitleFindAll(text, _TITLE_PATTERNS[p], 1, <<>>)])
    IN  fromkeys(pattern_titles \o LineTitles(text))

extract_experience(text) ==
    [job_titles |-> _extract_job_titles(text),
     achievements |-> _extract_bullets(text)]


(***************************************************************************)
(* Interview planner (domain/policies/interview_policy.py).                *)
(***************************************************************************)
_STOPWORDS ==
    { <<"t", "h", "e">>,
      <<"a", "n", "d">>,
      <<"t", "o">>,
      <<"o", "f">>,
      <<"a">>,
      <<"i", "n">>,
      <<"f", "o", "r">>,
      <<"w", "i", "t", "h">>,
      <<"o", "n">>,
      <<"i", "s">>,
      <<"a", "r", "e">>,
      <<"a", "s">>,
      <<"a", "t">>,
      <<"b", "e">>,
      <<"o", "r">>,
      <<"a", "n">>,
      <<"w", "e">>,
      <<"y", "o", "u">>,
      <<"y", "o", "u", "r">>,
      <<"o", "u", "r">>,
      <<"w", "i", "l", "l">>,
      <<"r", "o", "l", "e">>,
      <<"r", "e", "q", "u", "i", "r", "e", "m", "e", "n", "t", "s">>,
      <<"r", "e", "s", "p", "o", "n", "s", "i", "b", "i", "l", "i", "t", "i", "e", "s">>,
      <<"e", "x", "p", "e", "r", "i", "e", "n", "c", "e">> }

Question(template, arg) == [template |-> template, arg |-> arg]

\* the questions of _build_plan_from_job_only
JobIntro ==
    Question("Briefly introduce yourself and summarize your relevant experience.", <<>>)
JobKeywordQuestion(kw) ==
    Question("Tell me about a project where you used {kw}.", kw)
JobChallenge ==
    Question("Describe a challenging problem you solved and how you approached it.", <<>>)
JobClosing ==
    Question("Do you have any questions for us?", <<>>)

\* the keyword loop of _build_plan_from_job_only: tokens[i..] are still to
\* be visited, keywords is the list so far ("seen" is its set of elements)
RECURSIVE JobKeywords(_, _, _, _)
JobKeywords(tokens, i, keywords, maxq) ==
    IF i > Len(tokens) THEN keywords
    ELSE LET t == tokens[i]
         IN  IF t \in _STOPWORDS \/ Len(t) < 3 THEN JobKeywords(tokens, i + 1, keywords, maxq)
             ELSE IF t \in Range(keywords) THEN JobKeywords(tokens, i + 1, keywords, maxq)
             ELSE LET appended == Append(keywords, t)
                  IN  IF Len(appended) >= maxq - 2 THEN appended
                      ELSE JobKeywords(tokens, i + 1, appended, maxq)

\* mutant of _build_plan_from_job_only: the result is not truncated
_build_plan_from_job_only_untruncated(jd, maxq) ==
    LET keywords == JobKeywords(tokenize(jd), 1, <<>>, maxq)
    IN  <<JobIntro>>
        \o [k \in 1..Len(keywords) |-> JobKeywordQuestion(keywords[k])]
        \o <<JobChallenge, JobClosing>>

_build_plan_from_job_only(jd, maxq) ==
    LET keywords == JobKeywords(tokenize(jd), 1, <<>>, maxq)
        questions == <<JobIntro>>
                     \o [k \in 1..Len(keywords) |-> JobKeywordQuestion(keywords[k])]
                     \o <<JobChallenge, JobClosing>>
    IN  SliceTo(questions, maxq)

\* _truncate(text, max_len=140)
TruncateMaxLen == 140

\* the suffix written in the source: the three characters U+00E2, U+20AC,
\* U+00A6
TruncateSuffix == <<"ACIRC", "EURO", "BROKENBAR">>

_truncate(text, max_len) ==
    LET compact == join_space(split(text))
    IN  IF Len(compact) <= max_len THEN compact
        ELSE rstrip(SliceTo(compact, max_len - 1)) \o TruncateSuffix

\* re.fullmatch(r"[a-z0-9 ]+", term_lower)
IsPlainTerm(term_lower) ==
    /\ term_lower # <<>>
    /\ \A k \in 1..Len(term_lower) : IsLowerAlnum(term_lower[k]) \/ term_lower[k] = " "

\* number of non-overlapping occurrences, scanning left to right; with
\* guarded = TRUE an occurrence must not touch a character of [a-z0-9]
RECURSIVE CountFrom(_, _, _, _)
CountFrom(text, term, i, guarded) ==
    IF i + Len(term) - 1 > Len(text) THEN 0
    ELSE IF /\ MatchAt(text, i, term)
            /\ ~ guarded \/ (/\ i = 1 \/ ~ IsLowerAlnum(text[i - 1])
                             /\ i + Len(term) > Len(text) \/ ~ IsLowerAlnum(text[i + Len(term)]))
         THEN 1 + CountFrom(text, term, i + Len(term), guarded)
    ELSE CountFrom(text, term, i + 1, guarded)

_term_count(text_lower, term_lower) ==
    CountFrom(text_lower, term_lower, 1, IsPlainTerm(term_lower))

\* mutation: sorted by (count, term), the rarest term first
RankBefore_ascending(a, b) == a.count < b.count \/ (a.count = b.count /\ TextLess(a.term, b.term))

\* sorted by (-count, term)
RankBefore(a, b) == a.count > b.count \/ (a.count = b.count /\ TextLess(a.term, b.term))

RECURSIVE InsertRanked(_, _)
InsertRanked(sorted, x) ==
    IF sorted = <<>> THEN <<x>>
    ELSE IF RankBefore(x, Head(sorted)) THEN <<x>> \o sorted
    ELSE <<Head(sorted)>> \o InsertRanked(Tail(sorted), x)

RECURSIVE SortRanked(_, _)
SortRanked(xs, acc) ==
    IF xs = <<>> THEN acc ELSE SortRanked(Tail(xs), InsertRanked(acc, Head(xs)))

\* iteration over the set terms is taken in ascending order; the result is
\* sorted, so it does not depend on that order
_rank_terms_by_job_frequency(jd, terms) ==
    LET text_lower == lower(jd)
        listed == SortedTexts(terms)
        normal == [k \in 1..Len(listed) |-> lower(strip(listed[k]))]
        NonEmpty(t) == t # <<>>
        kept == FilterSeq(normal, NonEmpty)
        scored == [k \in 1..Len(kept) |->
                      [count |-> _term_count(text_lower, kept[k]), term |-> kept[k]]]
        ranked == SortRanked(scored, <<>>)
        Positive(s) == s.count > 0
        positive == FilterSeq(ranked, Positive)
    IN  [k \in 1..Len(positive) |-> positive[k].term]

\* Counter(tokens).most_common(n): by descending count, ties in order of
\* first occurrence
MostCommonLimit == 25

CountOf(tokens, t) == Cardinality({ k \in 1..Len(tokens) : tokens[k] = t })

RECURSIVE InsertByCount(_, _)
InsertByCount(sorted, x) ==
    IF sorted = <<>> THEN <<x>>
    ELSE IF x.count > Head(sorted).count THEN <<x>> \o sorted
    ELSE <<Head(sorted)>> \o InsertByCount(Tail(sorted), x)

RECURSIVE SortByCount(_, _)
SortByCount(xs, acc) ==
    IF xs = <<>> THEN acc ELSE SortByCount(Tail(xs), InsertByCount(acc, Head(xs)))

most_common(tokens, n) ==
    LET distinct == fromkeys(tokens)
        counted == [k \in 1..Len(distinct) |->
                       [count |-> CountOf(tokens, distinct[k]), term |-> distinct[k]]]
    IN  SliceTo(SortByCount(counted, <<>>), n)

\* the questions of _build_plan_from_job_and_resume
ResumeIntro ==
    Question("Briefly introduce yourself and summarize your most relevant experience for this role.", <<>>)
ResumeClosing ==
    Question("Do you have any questions for us about the role, team, or next steps?", <<>>)
ResumeBehavioral ==
    Question("Describe a challenging problem you solved, how you approached it, and what you learned.", <<>>)
HighlightQuestion(snippet) ==
    Question("On your resume you mention: \"{snippet}\". Can you walk me through the context, your specific contribution, and the outcome?", snippet)
MatchedQuestion(term) ==
    Question("Tell me about the most impactful work you've done using {term}. What was the problem, what did you build, and how did you measure success?", term)
GapQuestion(term) ==
    Question("This role involves {term}. What experience do you have with it, and if it's new to you, how would you ramp up in your first 30 days?", term)
Fallbacks ==
    << Question("What accomplishment are you most proud of, and what made it difficult?", <<>>),
       Question("How do you like to work with product/engineering stakeholders when requirements are unclear?", <<>>),
       Question("What's an example of a trade-off you made between speed and quality, and how did you decide?", <<>>) >>

\* the while loop that interleaves matched and gap questions; i and j count
\* the consumed elements of matched_ranked (matched) and gaps_ranked (gaps);
\* acc is the list targeted, asked the set asked_topics, limit the value of slots
RECURSIVE Interleave(_, _, _, _, _, _, _)
Interleave(matched, gaps, limit, i, j, acc, asked) ==
    IF ~ (Len(acc) < limit /\ (i < Len(matched) \/ j < Len(gaps)))
    THEN acc
    ELSE LET takeM == i < Len(matched)
             tm == matched[i + 1]
             addM == takeM /\ tm \notin asked
             i1 == IF takeM THEN i + 1 ELSE i
             acc1 == IF addM THEN Append(acc, MatchedQuestion(tm)) ELSE acc
             asked1 == IF addM THEN asked \cup {tm} ELSE asked
         IN  IF addM /\ Len(acc1) >= limit THEN acc1
             ELSE LET takeG == j < Len(gaps)
                      tg == gaps[j + 1]
                      addG == takeG /\ tg \notin asked1
                      j1 == IF takeG THEN j + 1 ELSE j
                      acc2 == IF addG THEN Append(acc1, GapQuestion(tg)) ELSE acc1
                      asked2 == IF addG THEN asked1 \cup {tg} ELSE asked1
                  IN  Interleave(matched, gaps, limit, i1, j1, acc2, asked2)

\* mutant of AddFallbacks: the fallback questions are never appended
AddFallbacks_skipped(acc, limit, k) == acc

\* the loop that appends fallbacks while slots remain
RECURSIVE AddFallbacks(_, _, _)
AddFallbacks(acc, limit, k) ==
    IF k > Len(Fallbacks) \/ Len(acc) >= limit THEN acc
    ELSE AddFallbacks(Append(acc, Fallbacks[k]), limit, k + 1)

\* mutant of PlanTail: the behavioral question is appended after the closing
\* question instead of being inserted before it
PlanTail_appended(maxq) ==
    (IF maxq >= 2 THEN <<ResumeClosing>> ELSE <<>>)
    \o (IF maxq >= 3 THEN <<ResumeBehavioral>> ELSE <<>>)

\* the list tail: closing if maxq >= 2, behavioral inserted before it if maxq >= 3
PlanTail(maxq) ==
    (IF maxq >= 3 THEN <<ResumeBehavioral>> ELSE <<>>)
    \o (IF maxq >= 2 THEN <<ResumeClosing>> ELSE <<>>)

_build_plan_from_job_and_resume(jd, cv, maxq) ==
    LET questions == <<ResumeIntro>>
        tail == PlanTail(maxq)
        slots == maxq - Len(questions) - Len(tail)
    IN  IF slots <= 0 THEN SliceTo(questions \o tail, maxq)
        ELSE LET jd_skills == extract_skills(jd)
                 cv_skills == extract_skills(cv)
                 LongEnough(t) == t \notin _STOPWORDS /\ Len(t) >= 3
                 jd_tokens == FilterSeq(tokenize(jd), LongEnough)
                 common == most_common(jd_tokens, MostCommonLimit)
                 required_terms == Range(jd_skills.technical) \cup Range(jd_skills.soft)
                                   \cup { common[k].term : k \in 1..Len(common) }
                 resume_terms == Range(cv_skills.technical) \cup Range(cv_skills.soft)
                                 \cup { t \in Range(tokenize(cv)) : Len(t) >= 3 }
                 matched_terms == required_terms \cap resume_terms
                 gap_terms == required_terms \ resume_terms
                 matched_ranked == _rank_terms_by_job_frequency(jd, matched_terms)
                 gaps_ranked == _rank_terms_by_job_frequency(jd, gap_terms)
                 exp == extract_experience(cv)
                 highlight == IF exp.achievements # <<>> THEN Some(exp.achievements[1])
                              ELSE IF exp.job_titles # <<>> THEN Some(exp.job_titles[1])
                              ELSE None
                 targeted0 == IF highlight # None /\ highlight[1] # <<>>
                              THEN <<HighlightQuestion(_truncate(highlight[1], TruncateMaxLen))>>
                              ELSE <<>>
                 targeted1 == Interleave(matched_ranked, gaps_ranked, slots, 0, 0, targeted0, {})
                 targeted2 == AddFallbacks(targeted1, slots, 1)
             IN  SliceTo(questions \o SliceTo(targeted2, slots) \o tail, maxq)

\* resume_text is Optional; "if resume_text" holds for a non-empty string
build_interview_plan(jd, resume, maxq) ==
    IF maxq <= 0 THEN <<>>
    ELSE IF resume # None /\ resume[1] # <<>>
         THEN _build_plan_from_job_and_resume(jd, resume[1], maxq)
    ELSE _build_plan_from_job_only(jd, maxq)

(***************************************************************************)
(* Interview session state machine (interview_engine/engine.py).           *)
(***************************************************************************)
InterviewTurn(question, answer) == [question |-> question, answer |-> answer]

\* datetime.isoformat() of an aware UTC datetime: the fraction is printed
\* only when the microsecond field is not zero
isoformat(dt) ==
    [seconds |-> dt.sec,
     fraction |-> IF dt.micro = 0 THEN <<>> ELSE <<dt.micro>>,
     offset |-> "+00:00"]

\* datetime.fromisoformat(): an absent fraction reads as microsecond 0
fromisoformat(iso) ==
    [sec |-> iso.seconds,
     micro |-> IF iso.fraction = <<>> THEN 0 ELSE iso.fraction[1]]

\* mutant of current_question: reads the turn before the pointer, so the
\* question just answered is returned again
current_question_previous(s) ==
    IF s.status # "active" THEN None
    ELSE IF s.next_turn_index >= Len(s.turns) THEN None
    ELSE Some(s.turns[Max(s.next_turn_index, 1)].question)

current_question(s) ==
    IF s.status # "active" THEN None
    ELSE IF s.next_turn_index >= Len(s.turns) THEN None
    ELSE Some(s.turns[s.next_turn_index + 1].question)

\* mutant of submit_answer: the completion test is > instead of >=
submit_answer_late_completion(s, answer, now) ==
    IF s.status # "active"
    THEN [raised |-> Some("ValueError: Interview is not active."), state |-> s]
    ELSE IF s.next_turn_index >= Len(s.turns)
    THEN [raised |-> Some("ValueError: No remaining questions."), state |-> s]
    ELSE LET stored == [s EXCEPT !.turns[s.next_turn_index + 1].answer = Some(answer),
                                 !.next_turn_index = s.next_turn_index + 1]
         IN  [raised |-> None,
              state |-> IF stored.next_turn_index > Len(stored.turns)
                        THEN [stored EXCEPT !.status = "completed", !.ended_at = Some(now)]
                        ELSE stored]

\* mutant of submit_answer: an invalid call returns silently instead of raising
submit_answer_silent(s, answer, now) ==
    IF s.status # "active" \/ s.next_turn_index >= Len(s.turns)
    THEN [raised |-> None, state |-> s]
    ELSE LET stored == [s EXCEPT !.turns[s.next_turn_index + 1].answer = Some(answer),
                                 !.next_turn_index = s.next_turn_index + 1]
         IN  [raised |-> None,
              state |-> IF stored.next_turn_index >= Len(stored.turns)
                        THEN [stored EXCEPT !.status = "completed", !.ended_at = Some(now)]
                        ELSE stored]

\* mutant of submit_answer: every answer is written to the first turn
submit_answer_first_turn(s, answer, now) ==
    IF s.status # "active"
    THEN [raised |-> Some("ValueError: Interview is not active."), state |-> s]
    ELSE IF s.next_turn_index >= Len(s.turns)
    THEN [raised |-> Some("ValueError: No remaining questions."), state |-> s]
    ELSE LET stored == [s EXCEPT !.turns[1].answer = Some(answer),
                                 !.next_turn_index = s.next_turn_index + 1]
         IN  [raised |-> None,
              state |-> IF stored.next_turn_index >= Len(stored.turns)
                        THEN [stored EXCEPT !.status = "completed", !.ended_at = Some(now)]
                        ELSE stored]

\* mutant of submit_answer: the end timestamp is taken before the guards, so
\* a rejected call on a completed session still overwrites ended_at
submit_answer_restamps(s, answer, now) ==
    IF s.status # "active"
    THEN [raised |-> Some("ValueError: Interview is not active."),
          state |-> [s EXCEPT !.ended_at = Some(now)]]
    ELSE IF s.next_turn_index >= Len(s.turns)
    THEN [raised |-> Some("ValueError: No remaining questions."), state |-> s]
    ELSE LET stored == [s EXCEPT !.turns[s.next_turn_index + 1].answer = Some(answer),
                                 !.next_turn_index = s.next_turn_index + 1]
         IN  [raised |-> None,
              state |-> IF stored.next_turn_index >= Len(stored.turns)
                        THEN [stored EXCEPT !.status = "completed", !.ended_at = Some(now)]
                        ELSE stored]

\* mutant of submit_answer: every accepted answer also restarts the clock
\* of the session
submit_answer_restarts(s, answer, now) ==
    IF s.status # "active"
    THEN [raised |-> Some("ValueError: Interview is not active."), state |-> s]
    ELSE IF s.next_turn_index >= Len(s.turns)
    THEN [raised |-> Some("ValueError: No remaining questions."), state |-> s]
    ELSE LET stored == [s EXCEPT !.turns[s.next_turn_index + 1].answer = Some(answer),
                                 !.next_turn_index = s.next_turn_index + 1,
                                 !.started_at = now]
         IN  [raised |-> None,
              state |-> IF stored.next_turn_index >= Len(stored.turns)
                        THEN [stored EXCEPT !.status = "completed", !.ended_at = Some(now)]
                        ELSE stored]

\* mutant of submit_answer: the pointer moves past the turn after the one
\* that was answered
submit_answer_skips(s, answer, now) ==
    IF s.status # "active"
    THEN [raised |-> Some("ValueError: Interview is not active."), state |-> s]
    ELSE IF s.next_turn_index >= Len(s.turns)
    THEN [raised |-> Some("ValueError: No remaining questions."), state |-> s]
    ELSE LET stored == [s EXCEPT !.turns[s.next_turn_index + 1].answer = Some(answer),
                                 !.next_turn_index = s.next_turn_index + 2]
         IN  [raised |-> None,
              state |-> IF stored.next_turn_index >= Len(stored.turns)
                        THEN [stored EXCEPT !.status = "completed", !.ended_at = Some(now)]
                        ELSE stored]

\* the outcome of submit_answer: the exception raised (None if it returned)
\* and the session state afterwards; now is the reading of datetime.now
submit_answer(s, answer, now) ==
    IF s.status # "active"
    THEN [raised |-> Some("ValueError: Interview is not active."), state |-> s]
    ELSE IF s.next_turn_index >= Len(s.turns)
    THEN [raised |-> Some("ValueError: No remaining questions."), state |-> s]
    ELSE LET stored == [s EXCEPT !.turns[s.next_turn_index + 1].answer = Some(answer),
                                 !.next_turn_index = s.next_turn_index + 1]
         IN  [raised |-> None,
              state |-> IF stored.next_turn_index >= Len(stored.turns)
                        THEN [stored EXCEPT !.status = "completed", !.ended_at = Some(now)]
                        ELSE stored]

transcript(s) ==
    [k \in 1..Len(s.turns) |-> [question |-> s.turns[k].question, answer |-> s.turns[k].answer]]

\* a datetime object is always truthy, so ended_at is printed whenever set
to_dict(s) ==
    [session_id |-> s.session_id,
     status |-> s.status,
     turns |-> [k \in 1..Len(s.turns) |->
                   [question |-> s.turns[k].question, answer |-> s.turns[k].answer]],
     next_turn_index |-> s.next_turn_index,
     started_at |-> isoformat(s.started_at),
     ended_at |-> IF s.ended_at # None THEN Some(isoformat(s.ended_at[1])) ELSE None,
     metadata |-> s.metadata]

\* mutant of from_dict: next_turn_index is not read back (the default 0)
from_dict_default_index(data) ==
    [session_id |-> data.session_id,
     status |-> data.status,
     turns |-> [k \in 1..Len(data.turns) |->
                   InterviewTurn(data.turns[k].question, data.turns[k].answer)],
     next_turn_index |-> 0,
     started_at |-> fromisoformat(data.started_at),
     ended_at |-> IF data.ended_at # None THEN Some(fromisoformat(data.ended_at[1])) ELSE None,
     metadata |-> data.metadata]

from_dict(data) ==
    [session_id |-> data.session_id,
     status |-> data.status,
     turns |-> [k \in 1..Len(data.turns) |->
                   InterviewTurn(data.turns[k].question, data.turns[k].answer)],
     next_turn_index |-> data.next_turn_index,
     started_at |-> fromisoformat(data.started_at),
     ended_at |-> IF data.ended_at # None THEN Some(fromisoformat(data.ended_at[1])) ELSE None,
     metadata |-> data.metadata]

\* TextInterviewEngine with the default planner
planner(jd, cv, n) == build_interview_plan(jd, Some(cv), n)

\* turns = [InterviewTurn(question=q) for q in questions]
InitialTurns(questions) ==
    [k \in 1..Len(questions) |-> InterviewTurn(questions[k], None)]

start(jd, cv, maxq, session_id, now) ==
    [session_id |-> session_id,
     status |-> "active",
     turns |-> InitialTurns(planner(jd, cv, maxq)),
     next_turn_index |-> 0,
     started_at |-> now,
     ended_at |-> None,
     metadata |-> [job_description_chars |-> Len(jd), resume_text_chars |-> Len(cv)]]

next_question(s) == current_question(s)

answer(s, text, now) == submit_answer(s, text, now)

(***************************************************************************)
(* Inputs of the model.                                                    *)
(***************************************************************************)
\* job descriptions are concatenations of these pieces
JobPieces ==
    { <<"A", "W", "S">>, <<"g", "o">>, <<" ", "t", "h", "e", " ">>, <<"_", "s", "q", "l">> }

\* resumes are concatenations of these pieces
ResumePieces ==
    { <<"a", "w", "s">>, <<"L", "e", "a", "d">>, <<"-", " ">>, <<"\n">> }

TextsOf(pieces, n) == { Concat(t) : t \in TuplesUpTo(pieces, n) }

JobTexts == TextsOf(JobPieces, MaxJobPieces)
ResumeTexts == TextsOf(ResumePieces, MaxResumePieces)
\* the texts a session is started with are built from fewer pieces
SessionJobPieces == { <<"A", "W", "S">> }
SessionResumePieces == { <<"a", "w", "s">> }
SessionJobTexts == TextsOf(SessionJobPieces, MaxSessionPieces)
SessionResumeTexts == TextsOf(SessionResumePieces, MaxSessionPieces)

QuestionCounts == -1..MaxQuestions

\* readings of datetime.now(timezone.utc)
Times == [sec : 0..MaxSec, micro : {0, 500000}]

\* values of the session id factory
SessionIds == {"session-1", "session-2"}

\* answer texts
Answers == {"a1", ""}

NoSession == [session_id |-> "", status |-> "none", turns |-> <<>>, next_turn_index |-> 0,
              started_at |-> [sec |-> 0, micro |-> 0], ended_at |-> None,
              metadata |-> [job_description_chars |-> 0, resume_text_chars |-> 0]]

NoResult == [op |-> "none", raised |-> None, value |-> None]

(***************************************************************************)
(* Specification of the session machine: an engine, then one session.      *)
(***************************************************************************)
Init ==
    /\ phase = "idle"
    /\ state = NoSession
    /\ result = NoResult
    /\ planned = <<>>
    /\ submitted = <<>>
    /\ requested = 0
    /\ job_description = <<>>
    /\ resume_text = None
    /\ max_questions = 0
    /\ plan = <<>>
    /\ plan_pc = "off"
    /\ fn_in = <<>>
    /\ fn_out = <<>>
    /\ fn_pc = "off"
    /\ StoreOff

\* engine.start(job_description=jd, resume_text=cv, max_questions=n)
Start ==
    /\ phase = "idle"
    /\ \E jd \in SessionJobTexts, cv \in SessionResumeTexts, n \in QuestionCounts,
          sid \in SessionIds, now \in Times :
          /\ state' = start(jd, cv, n, sid, now)
          /\ requested' = n
    /\ phase' = "running"
    /\ planned' = [k \in 1..Len(state'.turns) |-> state'.turns[k].question]
    /\ submitted' = <<>>
    /\ result' = [op |-> "start", raised |-> None, value |-> None]
    /\ UNCHANGED planVars
    /\ UNCHANGED fnVars
    /\ UNCHANGED storeVars

\* engine.answer(state, answer=a)
Answer ==
    /\ phase = "running"
    /\ \E a \in Answers, now \in Times :
          LET outcome == answer(state, a, now)
          IN  /\ state' = outcome.state
              /\ result' = [op |-> "answer", raised |-> outcome.raised, value |-> None]
              /\ submitted' = IF outcome.raised = None THEN Append(submitted, a) ELSE submitted
    /\ UNCHANGED <<phase, planned, requested>>
    /\ UNCHANGED planVars
    /\ UNCHANGED fnVars
    /\ UNCHANGED storeVars

\* engine.next_question(state)
NextQuestion ==
    /\ phase = "running"
    /\ result' = [op |-> "next_question", raised |-> None, value |-> next_question(state)]
    /\ UNCHANGED <<phase, state, planned, submitted, requested>>
    /\ UNCHANGED planVars
    /\ UNCHANGED fnVars
    /\ UNCHANGED storeVars

\* InterviewSessionState.from_dict(state.to_dict()) replaces the session
Restore ==
    /\ phase = "running"
    /\ state' = from_dict(to_dict(state))
    /\ result' = [op |-> "restore", raised |-> None, value |-> None]
    /\ UNCHANGED <<phase, planned, submitted, requested>>
    /\ UNCHANGED planVars
    /\ UNCHANGED fnVars
    /\ UNCHANGED storeVars

Next == Start \/ Answer \/ NextQuestion \/ Restore

Spec == Init /\ [][Next]_vars

(***************************************************************************)
(* Specification of one planner call.                                      *)
(***************************************************************************)
PlanInit ==
    /\ phase = "idle"
    /\ state = NoSession
    /\ result = NoResult
    /\ planned = <<>>
    /\ submitted = <<>>
    /\ requested = 0
    /\ job_description \in JobTexts
    /\ resume_text \in {None} \cup { Some(cv) : cv \in ResumeTexts }
    /\ max_questions \in QuestionCounts
    /\ plan = <<>>
    /\ plan_pc = "call"
    /\ fn_in = <<>>
    /\ fn_out = <<>>
    /\ fn_pc = "off"
    /\ StoreOff

\* plan = build_interview_plan(job_description, resume_text=..., max_questions=...)
BuildPlan ==
    /\ plan_pc = "call"
    /\ plan' = build_interview_plan(job_description, resume_text, max_questions)
    /\ plan_pc' = "returned"
    /\ UNCHANGED <<job_description, resume_text, max_questions>>
    /\ UNCHANGED sessionVars
    /\ UNCHANGED fnVars
    /\ UNCHANGED storeVars

PlanNext == BuildPlan

PlanSpec == PlanInit /\ [][PlanNext]_vars

(***************************************************************************)
(* Properties of the session machine (specification Spec).                 *)
(***************************************************************************)
Running == phase = "running"

\* the step is a call of engine.answer / submit_answer
AnswerStep == Running /\ result'.op = "answer"

\* submit_answer is valid in the current state
CanSubmit == state.status = "active" /\ state.next_turn_index < Len(state.turns)

\* C1: submit_answer(text) on an active session with next_turn_index = i below
\* the turn count returns normally, stores text as the answer of turn i, sets
\* next_turn_index to i + 1, and completes the session (status completed,
\* ended_at set) if and only if i + 1 equals the turn count; otherwise the
\* status stays active and ended_at stays null.
C1_SubmitRecordsAndAdvances ==
    [][ (AnswerStep /\ CanSubmit) =>
            LET i == state.next_turn_index
                last == i + 1 = Len(state.turns)
            IN  /\ result'.raised = None
                /\ submitted' # <<>>
                /\ state'.turns[i + 1].answer = Some(submitted'[Len(submitted')])
                /\ state'.next_turn_index = i + 1
                /\ (state'.status = "completed") <=> last
                /\ (state'.ended_at # None) <=> last
                /\ ~ last => (state'.status = "active" /\ state'.ended_at = None) ]_vars

C1_Witness ==
    /\ Running
    /\ result.op = "answer"
    /\ result.raised = None
    /\ Len(state.turns) >= 2
    /\ state.status = "completed"
    /\ state.ended_at # None

\* C2: submit_answer on a session that is not active, or whose pointer is not
\* below the turn count, raises ValueError and leaves every field of the
\* session as it was.
C2_InvalidSubmitRaisesAndKeepsState ==
    [][ (AnswerStep /\ ~ CanSubmit) =>
            /\ result'.raised \in { Some("ValueError: Interview is not active."),
                                    Some("ValueError: No remaining questions.") }
            /\ state' = state ]_vars

C2_Witness ==
    /\ Running
    /\ result.op = "answer"
    /\ result.raised = Some("ValueError: Interview is not active.")
    /\ state.status = "completed"

StoredAnswers == [k \in 1..Len(state.turns) |-> state.turns[k].answer]

\* C3: for a session started with a plan of N >= 1 questions, next_question is
\* non-null before each of the N submissions, and after the N-th submission
\* the status is completed, next_question is null, and the stored answers are
\* the submitted values in submission order.
C3_FullInterviewCompletes ==
    (Running /\ Len(planned) >= 1) =>
        /\ Len(submitted) < Len(planned) => next_question(state) # None
        /\ Len(submitted) = Len(planned) =>
              /\ state.status = "completed"
              /\ next_question(state) = None
              /\ StoredAnswers = [k \in 1..Len(submitted) |-> Some(submitted[k])]

C3_Witness ==
    /\ Running
    /\ Len(planned) = 4
    /\ Len(submitted) = 4
    /\ state.status = "completed"
    /\ StoredAnswers = [k \in 1..4 |-> Some(submitted[k])]

\* C4: next_question returns, without raising and without changing the
\* session, the question of the turn at next_turn_index when the session is
\* active and the pointer is below the turn count, and null otherwise; after
\* k < N accepted answers that is the (k+1)-th planned question.
C4_NextQuestionResult ==
    (Running /\ result.op = "next_question") =>
        /\ result.raised = None
        /\ result.value = IF state.status = "active" /\ state.next_turn_index < Len(state.turns)
                          THEN Some(state.turns[state.next_turn_index + 1].question)
                          ELSE None
        /\ Len(submitted) < Len(planned) => result.value = Some(planned[Len(submitted) + 1])
        /\ Len(submitted) >= Len(planned) => result.value = None

C4_NextQuestionAfterAnswers ==
    /\ [] C4_NextQuestionResult
    /\ [][ (Running /\ result'.op = "next_question") => state' = state ]_vars

C4_Witness ==
    /\ Running
    /\ result.op = "next_question"
    /\ Len(planned) = 4
    /\ submitted = <<"a1">>
    /\ result.value = Some(planned[2])
    /\ planned[2] # planned[1]

\* C5: completed is terminal: once the status is completed no call changes
\* the status, the turns and their answers, next_turn_index or ended_at.
C5_CompletedIsTerminal ==
    [][ (Running /\ state.status = "completed") =>
            /\ state'.status = "completed"
            /\ state'.turns = state.turns
            /\ state'.next_turn_index = state.next_turn_index
            /\ state'.ended_at = state.ended_at ]_vars

C5_Witness ==
    /\ Running
    /\ state.status = "completed"
    /\ Len(state.turns) >= 1
    /\ result.op = "answer"
    /\ result.raised # None
    /\ Len(submitted) = Len(state.turns)

\* C6: from_dict(to_dict(s)) equals s in every field, for every reachable
\* session state s (fresh, partially answered or completed).
C6_SerializationRoundTrip ==
    Running =>
        LET back == from_dict(to_dict(state))
        IN  /\ back.session_id = state.session_id
            /\ back.status = state.status
            /\ back.turns = state.turns
            /\ back.next_turn_index = state.next_turn_index
            /\ back.started_at = state.started_at
            /\ back.ended_at = state.ended_at
            /\ back.metadata = state.metadata

C6_Witness ==
    /\ Running
    /\ result.op = "restore"
    /\ state.status = "completed"
    /\ state.next_turn_index >= 2
    /\ state.started_at.micro # 0
    /\ state.ended_at # None
    /\ state.ended_at[1].micro = 0

\* C10 as claimed: a session started with a non-empty resume and
\* max_questions = N >= 1 has exactly N turns.
C10_ExactlyRequestedTurns ==
    (Running /\ state.metadata.resume_text_chars > 0 /\ requested >= 1) =>
        Len(state.turns) = requested

\* the number of questions the resume path can always supply: the intro, the
\* three fallbacks, the behavioral and the closing question
GuaranteedQuestions == 6

\* C10 amended: such a session has exactly N turns when N <= 6, and at least
\* 6 and at most N turns when N > 6.
C10_TurnsUpToRequested ==
    (Running /\ state.metadata.resume_text_chars > 0 /\ requested >= 1) =>
        /\ Len(state.turns) <= requested
        /\ requested <= GuaranteedQuestions => Len(state.turns) = requested
        /\ requested > GuaranteedQuestions => Len(state.turns) >= GuaranteedQuestions

C10_Witness ==
    /\ Running
    /\ state.metadata.resume_text_chars > 0
    /\ requested > GuaranteedQuestions
    /\ Len(state.turns) < requested

(***************************************************************************)
(* Properties of the planner (specification PlanSpec).                     *)
(***************************************************************************)
Returned == plan_pc = "returned"

\* no resume is supplied: resume_text is None (an empty string takes the
\* same branch)
NoResume == resume_text = None \/ resume_text = Some(<<>>)

\* C7: the plan is empty when max_questions <= 0; for N >= 1 it has at most N
\* questions, and without a resume its first question is the fixed
\* introduction.
C7_PlanBounded ==
    Returned =>
        /\ max_questions <= 0 => plan = <<>>
        /\ max_questions >= 1 => Len(plan) <= max_questions
        /\ (max_questions >= 1 /\ NoResume) => (Len(plan) >= 1 /\ plan[1] = JobIntro)

C7_Witness ==
    /\ Returned
    /\ resume_text = None
    /\ max_questions >= 3
    /\ Len(plan) = max_questions
    /\ plan[1] = JobIntro
    /\ plan[2].template = "Tell me about a project where you used {kw}."

\* the distinct job-description tokens, in text order, that are not
\* stopwords and have at least 3 characters
EligibleToken(t) == t \notin _STOPWORDS /\ Len(t) >= 3
EligibleKeywords(jd) == fromkeys(FilterSeq(tokenize(jd), EligibleToken))

KeywordQuestionCount(p) ==
    Cardinality({ k \in 1..Len(p) : p[k].template = "Tell me about a project where you used {kw}." })

\* C8: without a resume and for N >= 1 the plan is the first N elements of:
\* the intro, one keyword question for each of the first N-2 eligible
\* keywords, the challenge question, the closing question; so it has at most
\* N-2 keyword questions.
C8_JobOnlyPlanShape ==
    (Returned /\ resume_text = None /\ max_questions >= 1) =>
        LET allowed == Max(max_questions - 2, 0)
            keywords == SliceTo(EligibleKeywords(job_description), allowed)
            full == <<JobIntro>>
                    \o [k \in 1..Len(keywords) |-> JobKeywordQuestion(keywords[k])]
                    \o <<JobChallenge, JobClosing>>
        IN  /\ plan = SliceTo(full, max_questions)
            /\ KeywordQuestionCount(plan) <= allowed

HasResume == resume_text # None /\ resume_text[1] # <<>>

\* C9: with a non-empty resume the first question is the resume-path intro
\* for every N >= 1; for N >= 2 the last question is the closing question;
\* for N >= 3 the question before it is the behavioral question.
C9_ResumePlanFrame ==
    (Returned /\ HasResume /\ max_questions >= 1) =>
        /\ Len(plan) >= 1
        /\ plan[1] = ResumeIntro
        /\ max_questions >= 2 => (Len(plan) >= 2 /\ plan[Len(plan)] = ResumeClosing)
        /\ max_questions >= 3 => (Len(plan) >= 3 /\ plan[Len(plan) - 1] = ResumeBehavioral)

C9_Witness ==
    /\ Returned
    /\ HasResume
    /\ max_questions >= 4
    /\ Len(plan) = max_questions
    /\ plan[1] = ResumeIntro
    /\ plan[Len(plan) - 1] = ResumeBehavioral
    /\ plan[Len(plan)] = ResumeClosing

\* the text the highlight question would quote: the first achievement
\* bullet, or the first job title when there are no achievement bullets
FirstHighlight(cv) ==
    IF extract_experience(cv).achievements # <<>>
    THEN extract_experience(cv).achievements[1]
    ELSE extract_experience(cv).job_titles[1]

HasHighlightSource(cv) ==
    extract_experience(cv).achievements # <<>> \/ extract_experience(cv).job_titles # <<>>

\* C11: with a resume from which at least one achievement bullet or job
\* title is extracted and N >= 4, the second question of the plan is the
\* highlight question, quoting the first achievement bullet, or the first
\* job title when there are no achievement bullets.
C11_HighlightIsSecondQuestion ==
    (Returned /\ HasResume /\ max_questions >= 4 /\ HasHighlightSource(resume_text[1])) =>
        /\ Len(plan) >= 2
        /\ plan[2] = HighlightQuestion(_truncate(FirstHighlight(resume_text[1]), TruncateMaxLen))

(***************************************************************************)
(* JSON form of a plan: plan_to_json and plan_from_json                    *)
(* (interview_policy.py), with json.dumps and json.loads as CPython 3.11   *)
(* computes them.  A JSON text is a text over JsonPieces: it has no '{',   *)
(* '.', 'e', 'E', 'u', 'b', 'f', 'N' or 'I', so objects, floats, \u, \b    *)
(* and \f escapes, NaN and Infinity cannot be written and are not          *)
(* modelled.  Nesting deeper than the interpreter's recursion limit is     *)
(* out of reach of the bounded texts as well.                              *)
(***************************************************************************)
\* sys.int_info.default_max_str_digits: int() of a longer digit string
\* raises ValueError
IntMaxStrDigits == 4300

\* json.decoder.WHITESPACE
JsonSpaces == {" ", "\t", "\n", "\r"}

\* json.encoder.ESCAPE_DCT, restricted to the characters of the model
EscapeChar(c) ==
    CASE c = "\"" -> <<"\\", "\"">>
      [] c = "\\" -> <<"\\", "\\">>
      [] c = "\n" -> <<"\\", "n">>
      [] c = "\t" -> <<"\\", "t">>
      [] c = "\r" -> <<"\\", "r">>
      [] OTHER -> <<c>>

\* json.encoder.encode_basestring (ensure_ascii=False)
encode_basestring(s) ==
    <<"\"">> \o Concat([k \in 1..Len(s) |-> EscapeChar(s[k])]) \o <<"\"">>

\* sep.join(parts)
RECURSIVE JoinWith(_, _)
JoinWith(sep, parts) ==
    IF parts = <<>> THEN <<>>
    ELSE IF Len(parts) = 1 THEN parts[1]
    ELSE parts[1] \o sep \o JoinWith(sep, Tail(parts))

\* json.dumps of a list of strings, default separators (", ", ": ")
json_dumps(p) ==
    <<"[">> \o JoinWith(<<",", " ">>, [k \in 1..Len(p) |-> encode_basestring(p[k])]) \o <<"]">>

plan_to_json(p) == json_dumps(p)

\* decoded JSON values
JsonStr(t) == [kind |-> "str", text |-> t, items |-> <<>>]
JsonInt(t) == [kind |-> "int", text |-> t, items |-> <<>>]
JsonLit(name) == [kind |-> name, text |-> <<>>, items |-> <<>>]
JsonList(xs) == [kind |-> "list", text |-> <<>>, items |-> xs]

\* the outcome of scanning one value: the exception raised ("" if none),
\* the value and the index after it
Scanned(value, end) == [err |-> "", value |-> value, end |-> end]
ScanError(exc) == [err |-> exc, value |-> JsonLit("None"), end |-> 0]

\* WHITESPACE.match(s, i).end()
SkipSpaces(s, i) ==
    CHOOSE j \in i..(Len(s) + 1) :
        /\ j = Len(s) + 1 \/ s[j] \notin JsonSpaces
        /\ \A k \in i..(j - 1) : s[k] \in JsonSpaces

\* the end of the digit run \d* that starts at i
DigitsEnd(s, i) ==
    CHOOSE j \in i..(Len(s) + 1) :
        /\ j = Len(s) + 1 \/ ~ IsDigit(s[j])
        /\ \A k \in i..(j - 1) : IsDigit(s[k])

\* json.decoder.BACKSLASH
Unescape ==
    [c \in {"\"", "\\", "/", "n", "t", "r"} |->
        CASE c = "n" -> "\n" [] c = "t" -> "\t" [] c = "r" -> "\r" [] OTHER -> c]

\* the characters that end a chunk of STRINGCHUNK: the quote, the backslash
\* and the control characters
ChunkEnds == {"\"", "\\", "\n", "\t", "\r"}

\* json.decoder.py_scanstring (strict): i is the index after the opening
\* quote or after the last escape, acc the characters decoded so far; one
\* step per chunk of STRINGCHUNK
RECURSIVE py_scanstring(_, _, _)
py_scanstring(s, i, acc) ==
    IF \A j \in i..Len(s) : s[j] \notin ChunkEnds THEN ScanError("JSONDecodeError")
    ELSE LET j == CHOOSE j \in i..Len(s) :
                      /\ s[j] \in ChunkEnds
                      /\ \A k \in i..(j - 1) : s[k] \notin ChunkEnds
             content == acc \o SubSeq(s, i, j - 1)
         IN  IF s[j] = "\"" THEN Scanned(JsonStr(content), j + 1)
             ELSE IF s[j] # "\\" THEN ScanError("JSONDecodeError")
             ELSE IF j + 1 <= Len(s) /\ s[j + 1] \in DOMAIN Unescape
                  THEN py_scanstring(s, j + 2, Append(content, Unescape[s[j + 1]]))
                  ELSE ScanError("JSONDecodeError")

\* NUMBER_RE -?(0|[1-9]\d*) followed by int(): the value is kept as the
\* text str() prints for it
ScanNumber(s, i) ==
    LET d == IF s[i] = "-" THEN i + 1 ELSE i
    IN  IF d > Len(s) \/ ~ IsDigit(s[d]) THEN ScanError("JSONDecodeError")
        ELSE IF s[d] = "0" THEN Scanned(JsonInt(<<"0">>), d + 1)
        ELSE IF DigitsEnd(s, d) - d > IntMaxStrDigits THEN ScanError("ValueError")
        ELSE Scanned(JsonInt(SubSeq(s, i, DigitsEnd(s, d) - 1)), DigitsEnd(s, d))

\* json.scanner.py_make_scanner._scan_once and json.decoder.JSONArray
RECURSIVE scan_once(_, _)
RECURSIVE ArrayItems(_, _, _)
scan_once(s, i) ==
    IF i > Len(s) THEN ScanError("JSONDecodeError")
    ELSE IF s[i] = "\"" THEN py_scanstring(s, i + 1, <<>>)
    ELSE IF s[i] = "["
         THEN IF SkipSpaces(s, i + 1) <= Len(s) /\ s[SkipSpaces(s, i + 1)] = "]"
              THEN Scanned(JsonList(<<>>), SkipSpaces(s, i + 1) + 1)
              ELSE ArrayItems(s, SkipSpaces(s, i + 1), <<>>)
    ELSE IF MatchAt(s, i, <<"n", "u", "l", "l">>) THEN Scanned(JsonLit("None"), i + 4)
    ELSE IF MatchAt(s, i, <<"t", "r", "u", "e">>) THEN Scanned(JsonLit("True"), i + 4)
    ELSE IF MatchAt(s, i, <<"f", "a", "l", "s", "e">>) THEN Scanned(JsonLit("False"), i + 5)
    ELSE IF IsDigit(s[i]) \/ s[i] = "-" THEN ScanNumber(s, i)
    ELSE ScanError("JSONDecodeError")

\* the loop of JSONArray: i is the index of the next value, acc the values
\* read so far
ArrayItems(s, i, acc) ==
    LET v == scan_once(s, i)
        j == SkipSpaces(s, v.end)
    IN  IF v.err # "" THEN v
        ELSE IF j > Len(s) THEN ScanError("JSONDecodeError")
        ELSE IF s[j] = "]" THEN Scanned(JsonList(Append(acc, v.value)), j + 1)
        ELSE IF s[j] # "," THEN ScanError("JSONDecodeError")
        ELSE ArrayItems(s, SkipSpaces(s, j + 1), Append(acc, v.value))

\* JSONDecoder.decode: one value, then only whitespace
json_loads(s) ==
    LET v == scan_once(s, SkipSpaces(s, 1))
    IN  IF v.err # "" THEN v
        ELSE IF SkipSpaces(s, v.end) # Len(s) + 1 THEN ScanError("JSONDecodeError")
        ELSE v

\* repr() of a str
ReprQuote(t) == IF "'" \in Range(t) /\ "\"" \notin Range(t) THEN "\"" ELSE "'"

ReprChar(c, quote) ==
    CASE c = "\\" -> <<"\\", "\\">>
      [] c = "\n" -> <<"\\", "n">>
      [] c = "\t" -> <<"\\", "t">>
      [] c = "\r" -> <<"\\", "r">>
      [] c = quote -> <<"\\", c>>
      [] OTHER -> <<c>>

ReprStr(t) ==
    <<ReprQuote(t)>> \o Concat([k \in 1..Len(t) |-> ReprChar(t[k], ReprQuote(t))]) \o <<ReprQuote(t)>>

LiteralText ==
    [None |-> <<"N", "o", "n", "e">>, True |-> <<"T", "r", "u", "e">>,
     False |-> <<"F", "a", "l", "s", "e">>]

\* repr() of a decoded value
RECURSIVE repr(_)
repr(v) ==
    CASE v.kind = "str" -> ReprStr(v.text)
      [] v.kind = "int" -> v.text
      [] v.kind = "list" ->
            <<"[">> \o JoinWith(<<",", " ">>, [k \in 1..Len(v.items) |-> repr(v.items[k])]) \o <<"]">>
      [] OTHER -> LiteralText[v.kind]

\* str() of a decoded value
str(v) == IF v.kind = "str" THEN v.text ELSE repr(v)

\* the outcome of plan_from_json: the exception that escapes (None if the
\* call returns) and the returned list
plan_from_json(plan_json) ==
    LET data == json_loads(plan_json)
    IN  IF data.err = "JSONDecodeError" THEN [raised |-> None, value |-> <<>>]
        ELSE IF data.err # "" THEN [raised |-> Some(data.err), value |-> <<>>]
        ELSE IF data.value.kind # "list" THEN [raised |-> None, value |-> <<>>]
        ELSE [raised |-> None,
              value |-> [k \in 1..Len(data.value.items) |-> str(data.value.items[k])]]

(***************************************************************************)
(* Specification of one plan (de)serialisation: either plan_from_json of   *)
(* an arbitrary string, or plan_to_json of a list of strings followed by   *)
(* plan_from_json of its result.                                           *)
(***************************************************************************)
MaxJsonPieces == 4       \* JSON texts: at most this many pieces
MaxPlanLen == 2          \* serialised plans: at most this many strings
MaxPlanPieces == 1       \* strings of a serialised plan: at most this many pieces

JsonPieces ==
    { <<"[">>, <<"]">>, <<",">>, <<"\"">>, <<"\\">>, <<"a">>, <<"1">>, <<" ">>,
      <<"n", "u", "l", "l">> }

PlanPieces == { <<"a">>, <<"\"">>, <<"\\">>, <<"\n">> }

Ones(n) == [k \in 1..n |-> "1"]

\* numbers at and just over the digit limit of int()
LongJsonTexts ==
    { Ones(IntMaxStrDigits), Ones(IntMaxStrDigits + 1),
      <<"[">> \o Ones(IntMaxStrDigits + 1) \o <<"]">> }

JsonTexts == TextsOf(JsonPieces, MaxJsonPieces) \cup LongJsonTexts
PlanLists == TuplesUpTo(TextsOf(PlanPieces, MaxPlanPieces), MaxPlanLen)

EngineIdle ==
    /\ phase = "idle"
    /\ state = NoSession
    /\ result = NoResult
    /\ planned = <<>>
    /\ submitted = <<>>
    /\ requested = 0

PlannerOff ==
    /\ job_description = <<>>
    /\ resume_text = None
    /\ max_questions = 0
    /\ plan = <<>>
    /\ plan_pc = "off"

JsonInit ==
    /\ EngineIdle
    /\ PlannerOff
    /\ StoreOff
    /\ \/ /\ fn_pc = "from_json"
          /\ fn_in \in [plan : {None}, plan_json : JsonTexts]
       \/ /\ fn_pc = "to_json"
          /\ fn_in \in [plan : { Some(p) : p \in PlanLists }, plan_json : {<<>>}]
    /\ fn_out = None

\* plan_json = plan_to_json(plan)
PlanToJson ==
    /\ fn_pc = "to_json"
    /\ fn_in' = [fn_in EXCEPT !.plan_json = plan_to_json(fn_in.plan[1])]
    /\ fn_pc' = "from_json"
    /\ UNCHANGED fn_out
    /\ UNCHANGED sessionVars
    /\ UNCHANGED planVars
    /\ UNCHANGED storeVars

\* plan_from_json(plan_json)
PlanFromJson ==
    /\ fn_pc = "from_json"
    /\ fn_out' = Some(plan_from_json(fn_in.plan_json))
    /\ fn_pc' = "parsed"
    /\ UNCHANGED fn_in
    /\ UNCHANGED sessionVars
    /\ UNCHANGED planVars
    /\ UNCHANGED storeVars

JsonNext == PlanToJson \/ PlanFromJson

JsonSpec == JsonInit /\ [][JsonNext]_vars

(***************************************************************************)
(* Properties of the JSON form of a plan (specification JsonSpec).         *)
(***************************************************************************)
Parsed == fn_pc = "parsed"

\* the string is not valid JSON, or its JSON value is not a list
NotAJsonList(text) == json_loads(text).err # "" \/ json_loads(text).value.kind # "list"

\* C12: plan_from_json never raises on a string input; it returns the empty
\* list for a string that is not valid JSON or whose JSON value is not a
\* list; for the JSON produced by plan_to_json from a list of strings p it
\* returns p.
C12_PlanFromJsonNeverRaises ==
    Parsed =>
        /\ fn_out[1].raised = None
        /\ NotAJsonList(fn_in.plan_json) => fn_out[1].value = <<>>
        /\ fn_in.plan # None => fn_out[1].value = fn_in.plan[1]

(***************************************************************************)
(* Answer evaluator (nlp/answer_evaluator.py).  Scores are exact rational  *)
(* numbers [num, den] in lowest terms with den > 0.  The code computes     *)
(* them in binary floating point: where the exact value lies on a rounding *)
(* boundary (a tie of round(), an integer under int()) the float may fall  *)
(* on either side, so round() and int() give the set of possible results.  *)
(***************************************************************************)
RECURSIVE GCD(_, _)
GCD(a, b) == IF b = 0 THEN a ELSE GCD(b, a % b)

Rat(n, d) ==
    LET g == GCD(IF n < 0 THEN -n ELSE n, d)
    IN  [num |-> n \div g, den |-> d \div g]

Zero == Rat(0, 1)
One == Rat(1, 1)

RAdd(x, y) == Rat(x.num * y.den + y.num * x.den, x.den * y.den)
RSub(x, y) == Rat(x.num * y.den - y.num * x.den, x.den * y.den)
RMul(x, y) == Rat(x.num * y.num, x.den * y.den)
RLe(x, y) == x.num * y.den <= y.num * x.den
RMin(x, y) == IF RLe(x, y) THEN x ELSE y
RMax(x, y) == IF RLe(x, y) THEN y ELSE x

RECURSIVE Pow10(_)
Pow10(n) == IF n = 0 THEN 1 ELSE 10 * Pow10(n - 1)

\* round(x, ndigits) of a non-negative x: the nearest multiple of
\* 10^-ndigits; both neighbours at an exact tie
round(x, ndigits) ==
    LET scaled == x.num * Pow10(ndigits)
        twice == 2 * (scaled % x.den)
    IN  IF twice < x.den THEN { Rat(scaled \div x.den, Pow10(ndigits)) }
        ELSE IF twice > x.den THEN { Rat(scaled \div x.den + 1, Pow10(ndigits)) }
        ELSE { Rat(scaled \div x.den, Pow10(ndigits)), Rat(scaled \div x.den + 1, Pow10(ndigits)) }

\* int(x) of a non-negative float x: the integer part; when the exact value
\* is a positive integer the float may lie just below it
int(x) ==
    IF x.den = 1 /\ x.num > 0 THEN { x.num - 1, x.num } ELSE { x.num \div x.den }

\* _WEIGHTS
_WEIGHTS == [relevance |-> Rat(50, 100), depth |-> Rat(30, 100), clarity |-> Rat(20, 100)]

\* re.findall(r"[a-zA-Z0-9]+", text), lowercased
_tokenize(text) ==
    LET runs == WordRuns(text, 1, <<>>)
    IN  [k \in 1..Len(runs) |-> lower(runs[k])]

\* sum(1 for phrase in phrases if phrase in text)
PhraseCount(phrases, text) ==
    Cardinality({ k \in 1..Len(phrases) : Contains(text, phrases[k]) })

\* any(phrase in text for phrase in phrases)
AnyPhrase(phrases, text) == \E k \in 1..Len(phrases) : Contains(text, phrases[k])

\* min(count * step, cap)
CappedBonus(count, step, cap) == RMin(RMul(Rat(count, 1), step), cap)

stop_words ==
    { <<"t", "h", "e">>, <<"a">>, <<"a", "n">>, <<"i", "s">>, <<"a", "r", "e">>, <<"w", "a", "s">>,
      <<"w", "e", "r", "e">>, <<"b", "e">>, <<"b", "e", "e", "n">>, <<"h", "a", "v", "e">>,
      <<"h", "a", "s">>, <<"h", "a", "d">>, <<"d", "o">>, <<"d", "o", "e", "s">>,
      <<"d", "i", "d">>, <<"w", "i", "l", "l">>, <<"w", "o", "u", "l", "d">>, <<"c", "a", "n">>,
      <<"c", "o", "u", "l", "d">>, <<"s", "h", "o", "u", "l", "d">>, <<"m", "a", "y">>,
      <<"m", "i", "g", "h", "t">>, <<"m", "u", "s", "t">>, <<"w", "h", "a", "t">>,
      <<"h", "o", "w">>, <<"w", "h", "y">>, <<"w", "h", "e", "n">>, <<"w", "h", "e", "r", "e">>,
      <<"w", "h", "o">>, <<"w", "h", "i", "c", "h">>, <<"t", "e", "l", "l">>, <<"m", "e">>,
      <<"a", "b", "o", "u", "t">>, <<"y", "o", "u", "r">>, <<"y", "o", "u">>, <<"t", "o">>,
      <<"f", "o", "r">>, <<"o", "f">>, <<"i", "n">> }

relevance_boosters ==
    << <<"f", "i", "r", "s", "t">>, <<"s", "e", "c", "o", "n", "d">>, <<"t", "h", "i", "r", "d">>,
      <<"f", "i", "n", "a", "l", "l", "y">>,
      <<"i", "n", " ", "m", "y", " ", "e", "x", "p", "e", "r", "i", "e", "n", "c", "e">>,
      <<"s", "p", "e", "c", "i", "f", "i", "c", "a", "l", "l", "y">>,
      <<"f", "o", "r", " ", "e", "x", "a", "m", "p", "l", "e">>,
      <<"t", "o", " ", "i", "l", "l", "u", "s", "t", "r", "a", "t", "e">>,
      <<"b", "a", "s", "i", "c", "a", "l", "l", "y">>,
      <<"e", "s", "s", "e", "n", "t", "i", "a", "l", "l", "y">>,
      <<"p", "r", "i", "m", "a", "r", "i", "l", "y">>, <<"m", "a", "i", "n", "l", "y">>,
      <<"t", "h", "e", "r", "e", "f", "o", "r", "e">>,
      <<"c", "o", "n", "s", "e", "q", "u", "e", "n", "t", "l", "y">>,
      <<"a", "s", " ", "a", " ", "r", "e", "s", "u", "l", "t">>,
      <<"b", "e", "c", "a", "u", "s", "e">>, <<"s", "i", "n", "c", "e">>,
      <<"d", "u", "e", " ", "t", "o">> >>

\* the length_score of _calculate_relevance
LengthScore(answer_words, question_words) ==
    IF answer_words >= question_words * 2 THEN One
    ELSE IF answer_words >= question_words THEN Rat(8, 10)
    ELSE IF 2 * answer_words >= question_words THEN Rat(6, 10)
    ELSE IF answer_words > 0 THEN Rat(3, 10)
    ELSE Zero

\* the keyword_overlap of _calculate_relevance
KeywordOverlap(question_keywords, answer_tokens) ==
    IF question_keywords = {} THEN Rat(5, 10)
    ELSE Rat(Cardinality(question_keywords \cap answer_tokens), Cardinality(question_keywords))

_calculate_relevance(question, ans) ==
    IF ans = <<>> \/ question = <<>> THEN Zero
    ELSE RMin(RAdd(RAdd(RMul(KeywordOverlap({ t \in Range(_tokenize(question)) :
                                                  t \notin stop_words /\ Len(t) > 2 },
                                            Range(_tokenize(ans))),
                             Rat(5, 10)),
                        RMul(LengthScore(Len(_tokenize(ans)), Len(_tokenize(question))),
                             Rat(35, 100))),
                   RMul(CappedBonus(PhraseCount(relevance_boosters, lower(ans)),
                                    Rat(5, 100), Rat(15, 100)),
                        Rat(15, 100))),
              One)

\* re.split(r"[.!?]+", answer): cutting at every '.', '!' and '?' gives the
\* same pieces plus empty ones, which the caller drops
RECURSIVE SplitSentences(_, _, _)
SplitSentences(text, i, acc) ==
    IF \A k \in i..Len(text) : text[k] \notin {".", "!", "?"}
    THEN Append(acc, SubSeq(text, i, Len(text)))
    ELSE LET stop == CHOOSE k \in i..Len(text) :
                         /\ text[k] \in {".", "!", "?"}
                         /\ \A j \in i..(k - 1) : text[j] \notin {".", "!", "?"}
         IN  SplitSentences(text, stop + 1, Append(acc, SubSeq(text, i, stop - 1)))

\* [s.strip() for s in sentences if s.strip()]
Sentences(ans) ==
    LET pieces == SplitSentences(ans, 1, <<>>)
        kept == { k \in 1..Len(pieces) : strip(pieces[k]) # <<>> }
    IN  [n \in 1..Cardinality(kept) |->
            strip(pieces[CHOOSE k \in kept : Cardinality({ m \in kept : m < k }) = n - 1])]

\* sum(len(s.split()) for s in sentences)
RECURSIVE WordTotal(_)
WordTotal(sentences) ==
    IF sentences = <<>> THEN 0 ELSE Len(split(Head(sentences))) + WordTotal(Tail(sentences))

\* the adjustment for avg_sentence_length = words / count
SentenceLengthBonus(words, count) ==
    IF count = 0 THEN Zero
    ELSE IF words <= 15 * count THEN Rat(15, 100)
    ELSE IF words <= 25 * count THEN Rat(5, 100)
    ELSE IF words > 40 * count THEN Rat(-15, 100)
    ELSE Zero

example_indicators ==
    << <<"f", "o", "r", " ", "e", "x", "a", "m", "p", "l", "e">>,
      <<"f", "o", "r", " ", "i", "n", "s", "t", "a", "n", "c", "e">>,
      <<"s", "u", "c", "h", " ", "a", "s">>, <<"l", "i", "k", "e">>,
      <<"s", "p", "e", "c", "i", "f", "i", "c", "a", "l", "l", "y">>,
      <<"t", "o", " ", "i", "l", "l", "u", "s", "t", "r", "a", "t", "e">>,
      <<"c", "o", "n", "s", "i", "d", "e", "r", " ", "t", "h", "i", "s">>,
      <<"i", "m", "a", "g", "i", "n", "e">>, <<"l", "e", "t", "'", "s", " ", "s", "a", "y">>,
      <<"e", ".", "g", ".">> >>

flow_indicators ==
    << <<"f", "i", "r", "s", "t">>, <<"s", "e", "c", "o", "n", "d">>, <<"t", "h", "i", "r", "d">>,
      <<"n", "e", "x", "t">>, <<"t", "h", "e", "n">>, <<"f", "i", "n", "a", "l", "l", "y">>,
      <<"l", "a", "s", "t", "l", "y">>,
      <<"a", "d", "d", "i", "t", "i", "o", "n", "a", "l", "l", "y">>,
      <<"f", "u", "r", "t", "h", "e", "r", "m", "o", "r", "e">>,
      <<"m", "o", "r", "e", "o", "v", "e", "r">>, <<"a", "l", "s", "o">>,
      <<"b", "e", "s", "i", "d", "e", "s">>, <<"h", "o", "w", "e", "v", "e", "r">>,
      <<"o", "n", " ", "t", "h", "e", " ", "o", "t", "h", "e", "r", " ", "h", "a", "n", "d">>,
      <<"c", "o", "n", "v", "e", "r", "s", "e", "l", "y">>,
      <<"a", "l", "t", "e", "r", "n", "a", "t", "i", "v", "e", "l", "y">>,
      <<"t", "h", "e", "r", "e", "f", "o", "r", "e">>, <<"t", "h", "u", "s">>,
      <<"c", "o", "n", "s", "e", "q", "u", "e", "n", "t", "l", "y">>,
      <<"a", "s", " ", "a", " ", "r", "e", "s", "u", "l", "t">>,
      <<"b", "e", "c", "a", "u", "s", "e">>, <<"s", "o">>,
      <<"i", "n", " ", "c", "o", "n", "c", "l", "u", "s", "i", "o", "n">>,
      <<"i", "n", " ", "s", "u", "m", "m", "a", "r", "y">>, <<"o", "v", "e", "r", "a", "l", "l">> >>

ambiguous_markers ==
    << <<"k", "i", "n", "d", " ", "o", "f">>, <<"s", "o", "r", "t", " ", "o", "f">>,
      <<"m", "a", "y", "b", "e">>, <<"p", "e", "r", "h", "a", "p", "s">>,
      <<"i", " ", "t", "h", "i", "n", "k">>, <<"i", " ", "g", "u", "e", "s", "s">>,
      <<"p", "r", "o", "b", "a", "b", "l", "y">>, <<"p", "o", "s", "s", "i", "b", "l", "y">>,
      <<"m", "i", "g", "h", "t", " ", "b", "e">>, <<"c", "o", "u", "l", "d", " ", "b", "e">>,
      <<"n", "o", "t", " ", "s", "u", "r", "e">>, <<"u", "h">>, <<"u", "m">>, <<"h", "m", "m">>,
      <<"l", "i", "k", "e">>, <<"y", "o", "u", " ", "k", "n", "o", "w">> >>

\* ^ with re.MULTILINE: the start of the text or the position after "\n"
LineStart(text, i) == i = 1 \/ text[i - 1] = "\n"

\* re.search(r"^\s*<marker>\s+", text, re.MULTILINE) where the marker ends
\* at index j: blanks only between a line start and the marker's first
\* character at index i, and a blank after the marker
MarkerAfterBlanks(text, i, j) ==
    /\ j + 1 <= Len(text)
    /\ IsSpace(text[j + 1])
    /\ \E b \in 1..i : LineStart(text, b) /\ \A k \in b..(i - 1) : IsSpace(text[k])

\* ^\s*[-*•]\s+
HasBulletLine(text) ==
    \E i \in 1..Len(text) : text[i] \in {"-", "*", "BULLET"} /\ MarkerAfterBlanks(text, i, i)

\* ^\s*\d+[.)]\s+
HasNumberedLine(text) ==
    \E i \in 1..Len(text), j \in 1..Len(text) :
        /\ i < j
        /\ \A k \in i..(j - 1) : IsDigit(text[k])
        /\ text[j] \in {".", ")"}
        /\ MarkerAfterBlanks(text, i, j)

\* mutant of _calculate_clarity: the guard for an empty answer is missing
_calculate_clarity_unguarded(ans) ==
    RMin(RMax(RAdd(RSub(RAdd(RAdd(RAdd(Rat(5, 10),
                                       SentenceLengthBonus(WordTotal(Sentences(ans)),
                                                           Len(Sentences(ans)))),
                                  IF AnyPhrase(example_indicators, lower(ans))
                                  THEN Rat(15, 100) ELSE Zero),
                             CappedBonus(PhraseCount(flow_indicators, lower(ans)),
                                         Rat(3, 100), Rat(15, 100))),
                        CappedBonus(PhraseCount(ambiguous_markers, lower(ans)),
                                    Rat(5, 100), Rat(20, 100))),
                   IF HasBulletLine(ans) \/ HasNumberedLine(ans)
                   THEN Rat(10, 100) ELSE Zero),
              Zero),
         One)

_calculate_clarity(ans) ==
    IF ans = <<>> THEN Zero
    ELSE RMin(RMax(RAdd(RSub(RAdd(RAdd(RAdd(Rat(5, 10),
                                            SentenceLengthBonus(WordTotal(Sentences(ans)),
                                                                Len(Sentences(ans)))),
                                       IF AnyPhrase(example_indicators, lower(ans))
                                       THEN Rat(15, 100) ELSE Zero),
                                  CappedBonus(PhraseCount(flow_indicators, lower(ans)),
                                              Rat(3, 100), Rat(15, 100))),
                             CappedBonus(PhraseCount(ambiguous_markers, lower(ans)),
                                         Rat(5, 100), Rat(20, 100))),
                        IF HasBulletLine(ans) \/ HasNumberedLine(ans)
                        THEN Rat(10, 100) ELSE Zero),
                   Zero),
              One)

\* re.search(r"\d+%|\d+\.\d+|\d+ years|\d+ months", answer)
HasNumbers(text) ==
    \E i \in 1..Len(text) :
        /\ IsDigit(text[i])
        /\ \/ MatchAt(text, i + 1, <<"%">>)
           \/ (MatchAt(text, i + 1, <<".">>) /\ i + 2 <= Len(text) /\ IsDigit(text[i + 2]))
           \/ MatchAt(text, i + 1, <<" ", "y", "e", "a", "r", "s">>)
           \/ MatchAt(text, i + 1, <<" ", "m", "o", "n", "t", "h", "s">>)

concrete_indicators ==
    <<
      <<"i", "n", " ", "m", "y", " ", "p", "r", "e", "v", "i", "o", "u", "s", " ", "r", "o", "l", "e">>,
      <<"a", "t", " ", "m", "y", " ", "l", "a", "s", "t", " ", "c", "o", "m", "p", "a", "n", "y">>,
      <<"i", " ", "w", "o", "r", "k", "e", "d", " ", "o", "n">>,
      <<"w", "e", " ", "i", "m", "p", "l", "e", "m", "e", "n", "t", "e", "d">>,
      <<"t", "h", "e", " ", "p", "r", "o", "j", "e", "c", "t", " ", "i", "n", "v", "o", "l", "v", "e", "d">>,
      <<"f", "o", "r", " ", "i", "n", "s", "t", "a", "n", "c", "e">>,
      <<"s", "p", "e", "c", "i", "f", "i", "c", "a", "l", "l", "y">>,
      <<"o", "n", "e", " ", "t", "i", "m", "e", " ", "w", "h", "e", "n">>,
      <<"a", " ", "s", "i", "t", "u", "a", "t", "i", "o", "n", " ", "w", "h", "e", "r", "e">> >>

nuance_indicators ==
    << <<"h", "o", "w", "e", "v", "e", "r">>, <<"a", "l", "t", "h", "o", "u", "g", "h">>,
      <<"w", "h", "i", "l", "e">>,
      <<"o", "n", " ", "t", "h", "e", " ", "o", "t", "h", "e", "r", " ", "h", "a", "n", "d">>,
      <<"c", "o", "n", "v", "e", "r", "s", "e", "l", "y">>,
      <<"t", "r", "a", "d", "e", "-", "o", "f", "f">>, <<"b", "a", "l", "a", "n", "c", "e">>,
      <<"d", "e", "p", "e", "n", "d", "s", " ", "o", "n">>,
      <<"c", "o", "n", "s", "i", "d", "e", "r">>,
      <<"a", "l", "t", "e", "r", "n", "a", "t", "i", "v", "e">>,
      <<"p", "r", "o", "s", " ", "a", "n", "d", " ", "c", "o", "n", "s">>,
      <<"a", "d", "v", "a", "n", "t", "a", "g", "e">>,
      <<"d", "i", "s", "a", "d", "v", "a", "n", "t", "a", "g", "e">>,
      <<"c", "h", "a", "l", "l", "e", "n", "g", "e">>,
      <<"l", "i", "m", "i", "t", "a", "t", "i", "o", "n">>,
      <<"i", "t", "'", "s", " ", "i", "m", "p", "o", "r", "t", "a", "n", "t", " ", "t", "o", " ", "n", "o", "t", "e">>,
      <<"k", "e", "e", "p", " ", "i", "n", " ", "m", "i", "n", "d">> >>

approach_indicators ==
    << <<"f", "i", "r", "s", "t", " ", "a", "p", "p", "r", "o", "a", "c", "h">>,
      <<"s", "e", "c", "o", "n", "d", " ", "m", "e", "t", "h", "o", "d">>,
      <<"a", "l", "t", "e", "r", "n", "a", "t", "i", "v", "e", " ", "w", "a", "y">>,
      <<"a", "n", "o", "t", "h", "e", "r", " ", "o", "p", "t", "i", "o", "n">>,
      <<"o", "n", "e", " ", "w", "a", "y">>,
      <<"a", "n", "o", "t", "h", "e", "r", " ", "w", "a", "y">>, <<"a", "l", "s", "o">>,
      <<"a", "d", "d", "i", "t", "i", "o", "n", "a", "l", "l", "y">>,
      <<"f", "u", "r", "t", "h", "e", "r", "m", "o", "r", "e">>,
      <<"i", "n", " ", "a", "d", "d", "i", "t", "i", "o", "n">>,
      <<"b", "e", "s", "i", "d", "e", "s">>, <<"m", "o", "r", "e", "o", "v", "e", "r">> >>

\* vocabulary_richness = unique tokens / tokens, credited as min(v * 0.2, 0.15)
RichnessBonus(tokens) ==
    IF tokens = <<>> THEN Zero
    ELSE RMin(RMul(Rat(Cardinality(Range(tokens)), Len(tokens)), Rat(2, 10)), Rat(15, 100))

\* the adjustment for the number of words of the answer
WordCountBonus(word_count) ==
    IF word_count >= 150 THEN Rat(10, 100)
    ELSE IF word_count >= 100 THEN Rat(8, 100)
    ELSE IF word_count >= 50 THEN Rat(5, 100)
    ELSE IF word_count < 20 THEN Rat(-20, 100)
    ELSE Zero

\* mutation: the depth score is not capped at 1
_calculate_depth_uncapped(ans, question_type) ==
    IF ans = <<>> THEN Zero
    ELSE      RMax(RAdd(RAdd(RAdd(RAdd(RAdd(RAdd(Rat(3, 10),
                                                 RichnessBonus(_tokenize(ans))),
                                            IF HasNumbers(ans) THEN Rat(15, 100) ELSE Zero),
                                       CappedBonus(PhraseCount(concrete_indicators, lower(ans)),
                                                   Rat(8, 100), Rat(20, 100))),
                                  CappedBonus(PhraseCount(nuance_indicators, lower(ans)),
                                              Rat(5, 100), Rat(15, 100))),
                             CappedBonus(PhraseCount(approach_indicators, lower(ans)),
                                         Rat(6, 100), Rat(18, 100))),
                        WordCountBonus(Len(_tokenize(ans)))),
                   Zero)

\* question_type is accepted and not read
_calculate_depth(ans, question_type) ==
    IF ans = <<>> THEN Zero
    ELSE RMin(RMax(RAdd(RAdd(RAdd(RAdd(RAdd(RAdd(Rat(3, 10),
                                                 RichnessBonus(_tokenize(ans))),
                                            IF HasNumbers(ans) THEN Rat(15, 100) ELSE Zero),
                                       CappedBonus(PhraseCount(concrete_indicators, lower(ans)),
                                                   Rat(8, 100), Rat(20, 100))),
                                  CappedBonus(PhraseCount(nuance_indicators, lower(ans)),
                                              Rat(5, 100), Rat(15, 100))),
                             CappedBonus(PhraseCount(approach_indicators, lower(ans)),
                                         Rat(6, 100), Rat(18, 100))),
                        WordCountBonus(Len(_tokenize(ans)))),
                   Zero),
              One)

\* the weighted overall score
Overall(relevance, clarity, depth) ==
    RAdd(RAdd(RMul(relevance, _WEIGHTS.relevance), RMul(depth, _WEIGHTS.depth)),
         RMul(clarity, _WEIGHTS.clarity))

\* the score fields of the AnswerEvaluation built from the three scores;
\* explanation, strengths, weaknesses and suggestions are feedback texts
\* derived from the same scores and are not represented
AnswerEvaluation(relevance, clarity, depth) ==
    { [relevance_score |-> r, clarity_score |-> c, depth_score |-> d,
       overall_score |-> o, overall_score_percent |-> p] :
        r \in round(relevance, 3), c \in round(clarity, 3), d \in round(depth, 3),
        o \in round(Overall(relevance, clarity, depth), 3),
        p \in int(RMul(Overall(relevance, clarity, depth), Rat(100, 1))) }

\* the possible results of evaluate_answer
evaluate_answer(question, ans, question_type) ==
    AnswerEvaluation(_calculate_relevance(question, ans),
                     _calculate_clarity(ans),
                     _calculate_depth(ans, question_type))

(***************************************************************************)
(* Specification of one answer evaluation.                                 *)
(***************************************************************************)
MaxEvalQuestionPieces == 2   \* evaluated questions: at most this many pieces
MaxEvalAnswerPieces == 2     \* evaluated answers: at most this many pieces

EvalQuestionPieces == { <<"W", "h", "a", "t">>, <<" ">>, <<"A", "W", "S">> }

EvalAnswerPieces ==
    { <<"a", "w", "s">>, <<" ">>, <<"b", "e", "c", "a", "u", "s", "e">>,
      <<"1", "%">>, <<"-">>, <<".">> }

EvalQuestions == TextsOf(EvalQuestionPieces, MaxEvalQuestionPieces)
\* an answer with a bullet, a number, short sentences and enough indicator
\* phrases to push clarity and depth over 1 before they are capped
RichAnswer ==
    <<"-", " ", "1", "%", " ", "f", "o", "r", " ", "i", "n", "s", "t", "a", "n", "c", "e", " ", "s", "p", "e", "c", "i", "f", "i", "c", "a", "l", "l", "y", " ", "i", " ", "w", "o", "r", "k", "e", "d", " ", "o", "n", ".", " ", "h", "o", "w", "e", "v", "e", "r", " ", "w", "h", "i", "l", "e", " ", "b", "a", "l", "a", "n", "c", "e", " ", "a", "l", "s", "o", " ", "b", "e", "s", "i", "d", "e", "s", " ", "o", "n", "e", " ", "w", "a", "y", " ", "t", "h", "e", "n", " ", "n", "e", "x", "t", " ", "f", "i", "r", "s", "t", " ", "a", " ", "b", " ", "c">>

EvalAnswers ==
    TextsOf(EvalAnswerPieces, MaxEvalAnswerPieces)
    \cup { RichAnswer, RichAnswer \o <<" ", "a", "w", "s">> }
QuestionTypes == {"general", "technical"}

EvalInit ==
    /\ EngineIdle
    /\ PlannerOff
    /\ StoreOff
    /\ fn_in \in [question : EvalQuestions, answer : EvalAnswers, question_type : QuestionTypes]
    /\ fn_out = None
    /\ fn_pc = "evaluate"

\* evaluate_answer(question, answer, question_type)
EvaluateAnswer ==
    /\ fn_pc = "evaluate"
    /\ \E e \in evaluate_answer(fn_in.question, fn_in.answer, fn_in.question_type) :
          fn_out' = Some(e)
    /\ fn_pc' = "evaluated"
    /\ UNCHANGED fn_in
    /\ UNCHANGED sessionVars
    /\ UNCHANGED planVars
    /\ UNCHANGED storeVars

EvalNext == EvaluateAnswer

EvalSpec == EvalInit /\ [][EvalNext]_vars

(***************************************************************************)
(* Properties of the answer evaluator (specification EvalSpec).            *)
(***************************************************************************)
Evaluated == fn_pc = "evaluated"

\* C13: for every question, empty or not, an empty answer yields
\* relevance_score = clarity_score = depth_score = 0.0, overall_score = 0.0
\* and overall_score_percent = 0.
C13_EmptyAnswerScoresZero ==
    (Evaluated /\ fn_in.answer = <<>>) =>
        /\ fn_out[1].relevance_score = Zero
        /\ fn_out[1].clarity_score = Zero
        /\ fn_out[1].depth_score = Zero
        /\ fn_out[1].overall_score = Zero
        /\ fn_out[1].overall_score_percent = 0

\* an empty answer to a non-empty question has been evaluated; and a
\* non-empty answer to the same kind of question does score
C13_Witness ==
    /\ Evaluated
    /\ fn_in.answer = <<>>
    /\ fn_in.question # <<>>
    /\ fn_out[1].overall_score_percent = 0

(***************************************************************************)
(* Regular expressions of the extractors and the scorer.  A pattern is a   *)
(* sequence of items; the match is the one the backtracking engine of re   *)
(* finds first.  Patterns compiled with re.IGNORECASE are written in       *)
(* lowercase and matched against the lowercased text, which has the same   *)
(* length and positions as the text.                                       *)
(***************************************************************************)
\* (?:a|b|...): literal alternatives, tried in order; in a literal "ANY"
\* stands for an unescaped dot
ReAlt(options) == [item |-> "alt", options |-> options, class |-> "", least |-> 0, most |-> 0, sub |-> <<>>]

\* a greedy run of least..most characters of a class (most = -1: no limit)
ReRun(class, least, most) == [item |-> "run", options |-> <<>>, class |-> class, least |-> least, most |-> most, sub |-> <<>>]

\* (?:sub)?
ReOpt(sub) == [item |-> "opt", options |-> <<>>, class |-> "", least |-> 0, most |-> 0, sub |-> sub]

\* \b
ReWordBoundary == [item |-> "wb", options |-> <<>>, class |-> "", least |-> 0, most |-> 0, sub |-> <<>>]

\* \s, \d, [^\n] and [^\n,]
ReClass(c, class) ==
    IF class = "space" THEN IsSpace(c)
    ELSE IF class = "digit" THEN IsDigit(c)
    ELSE IF class = "notnl" THEN c # "\n"
    ELSE c # "\n" /\ c # ","

\* the end of the longest run of at most limit class characters from p
RECURSIVE ReRunEnd(_, _, _, _)
ReRunEnd(text, p, class, limit) ==
    IF limit # 0 /\ p <= Len(text) /\ ReClass(text[p], class)
    THEN ReRunEnd(text, p + 1, class, limit - 1)
    ELSE p

ReLiteralAt(text, pos, literal) ==
    /\ pos + Len(literal) - 1 <= Len(text)
    /\ \A k \in 1..Len(literal) :
          IF literal[k] = "ANY" THEN text[pos + k - 1] # "\n"
          ELSE text[pos + k - 1] = literal[k]

\* backtracking match of items[k..] at position pos: the end (first
\* position after the match) of the match found first, 0 if there is none
RECURSIVE ReEnd(_, _, _, _)
RECURSIVE ReAltEnd(_, _, _, _, _)
RECURSIVE ReRunBack(_, _, _, _, _)
ReEnd(text, pos, items, k) ==
    IF k > Len(items) THEN pos
    ELSE IF items[k].item = "alt" THEN ReAltEnd(text, pos, items, k, 1)
    ELSE IF items[k].item = "opt"
         THEN LET taken == ReEnd(text, pos, items[k].sub \o SubSeq(items, k + 1, Len(items)), 1)
              IN  IF taken # 0 THEN taken ELSE ReEnd(text, pos, items, k + 1)
    ELSE IF items[k].item = "wb"
         THEN (IF WordBoundary(text, pos) THEN ReEnd(text, pos, items, k + 1) ELSE 0)
    ELSE ReRunBack(text, pos, items, k, ReRunEnd(text, pos, items[k].class, items[k].most))

ReAltEnd(text, pos, items, k, o) ==
    IF o > Len(items[k].options) THEN 0
    ELSE LET rest == IF ReLiteralAt(text, pos, items[k].options[o])
                     THEN ReEnd(text, pos + Len(items[k].options[o]), items, k + 1)
                     ELSE 0
         IN  IF rest # 0 THEN rest ELSE ReAltEnd(text, pos, items, k, o + 1)

ReRunBack(text, pos, items, k, q) ==
    IF q < pos + items[k].least THEN 0
    ELSE LET rest == ReEnd(text, q, items, k + 1)
         IN  IF rest # 0 THEN rest ELSE ReRunBack(text, pos, items, k, q - 1)

\* the spans [start, end) of the non-overlapping matches re.findall and
\* re.search walk through; none of the patterns below matches the empty text
RECURSIVE ReFindAll(_, _, _, _)
ReFindAll(text, items, i, acc) ==
    IF i > Len(text) THEN acc
    ELSE LET e == ReEnd(text, i, items, 1)
         IN  IF e = 0 \/ e = i THEN ReFindAll(text, items, i + 1, acc)
             ELSE ReFindAll(text, items, e, Append(acc, [start |-> i, end |-> e]))

\* the texts of the spans
SpanTexts(text, spans) == [n \in 1..Len(spans) |-> SubSeq(text, spans[n].start, spans[n].end - 1)]

\* re.findall(pattern, text, re.IGNORECASE) for a pattern without groups
re_findall(items, text) == SpanTexts(text, ReFindAll(lower(text), items, 1, <<>>))

\* int(digits) for a run of decimal digits
RECURSIVE DigitsValue(_, _)
DigitsValue(digits, acc) ==
    IF digits = <<>> THEN acc
    ELSE DigitsValue(Tail(digits),
                     10 * acc + (CHOOSE d \in 0..9 : Digits[d + 1] = Head(digits)))

(***************************************************************************)
(* Education extractor (nlp/education_extractor.py).  _DEGREE_KEYWORDS and *)
(* _FIELD_KEYWORDS are Python sets, listed in the order of the source      *)
(* literal.                                                                *)
(***************************************************************************)
_DEGREE_KEYWORDS ==
    << <<"b", "a", "c", "h", "e", "l", "o", "r">>, <<"m", "a", "s", "t", "e", "r">>, <<"p", "h", "d">>, <<"d", "o", "c", "t", "o", "r", "a", "t", "e">>,
       <<"d", "o", "c", "t", "o", "r">>, <<"m", "b", "a">>, <<"a", "s", "s", "o", "c", "i", "a", "t", "e">>, <<"b", ".", "s", "c">>,
       <<"m", ".", "s", "c">>, <<"b", ".", "a">>, <<"m", ".", "a">>, <<"b", "s">>,
       <<"m", "s">>, <<"b", "a">>, <<"m", "a">>, <<"d", "i", "p", "l", "o", "m", "a">>,
       <<"c", "e", "r", "t", "i", "f", "i", "c", "a", "t", "e">>, <<"c", "e", "r", "t", "i", "f", "i", "c", "a", "t", "i", "o", "n">> >>

_FIELD_KEYWORDS ==
    << <<"c", "o", "m", "p", "u", "t", "e", "r", " ", "s", "c", "i", "e", "n", "c", "e">>, <<"d", "a", "t", "a", " ", "s", "c", "i", "e", "n", "c", "e">>, <<"s", "o", "f", "t", "w", "a", "r", "e", " ", "e", "n", "g", "i", "n", "e", "e", "r", "i", "n", "g">>,
       <<"i", "n", "f", "o", "r", "m", "a", "t", "i", "o", "n", " ", "t", "e", "c", "h", "n", "o", "l", "o", "g", "y">>, <<"m", "a", "t", "h", "e", "m", "a", "t", "i", "c", "s">>, <<"s", "t", "a", "t", "i", "s", "t", "i", "c", "s">>,
       <<"p", "h", "y", "s", "i", "c", "s">>, <<"c", "h", "e", "m", "i", "s", "t", "r", "y">>, <<"b", "i", "o", "l", "o", "g", "y">>,
       <<"b", "u", "s", "i", "n", "e", "s", "s">>, <<"e", "c", "o", "n", "o", "m", "i", "c", "s">>, <<"f", "i", "n", "a", "n", "c", "e">>,
       <<"m", "a", "r", "k", "e", "t", "i", "n", "g">>, <<"m", "a", "n", "a", "g", "e", "m", "e", "n", "t">>, <<"e", "n", "g", "i", "n", "e", "e", "r", "i", "n", "g">>,
       <<"e", "l", "e", "c", "t", "r", "i", "c", "a", "l", " ", "e", "n", "g", "i", "n", "e", "e", "r", "i", "n", "g">>, <<"m", "e", "c", "h", "a", "n", "i", "c", "a", "l", " ", "e", "n", "g", "i", "n", "e", "e", "r", "i", "n", "g">>, <<"p", "s", "y", "c", "h", "o", "l", "o", "g", "y">>,
       <<"s", "o", "c", "i", "o", "l", "o", "g", "y">>, <<"p", "h", "i", "l", "o", "s", "o", "p", "h", "y">>, <<"l", "i", "t", "e", "r", "a", "t", "u", "r", "e">>,
       <<"l", "a", "w">>, <<"m", "e", "d", "i", "c", "i", "n", "e">>, <<"n", "u", "r", "s", "i", "n", "g">>,
       <<"e", "d", "u", "c", "a", "t", "i", "o", "n">> >>

_DEGREE_PATTERNS ==
    << << ReAlt(<< <<"b", "a", "c", "h", "e", "l", "o", "r">>, <<"m", "a", "s", "t", "e", "r">>, <<"d", "o", "c", "t", "o", "r">>, <<"p", "h", "d">> >>),
            ReRun("space", 1, -1),
            ReOpt(<< ReAlt(<< <<"o", "f">> >>), ReRun("space", 1, -1) >>),
            ReAlt(<< <<"s", "c", "i", "e", "n", "c", "e">>, <<"a", "r", "t", "s">>, <<"e", "n", "g", "i", "n", "e", "e", "r", "i", "n", "g">>, <<"b", "u", "s", "i", "n", "e", "s", "s">>, <<"f", "i", "n", "e", " ", "a", "r", "t", "s">> >>),
            ReRun("space", 1, -1),
            ReOpt(<< ReAlt(<< <<"i", "n">> >>), ReRun("space", 1, -1) >>),
            ReRun("notnlcomma", 1, -1) >>,
       << ReAlt(<< <<"b", ".", "s", "c">>, <<"m", ".", "s", "c">>, <<"b", ".", "a">>, <<"m", ".", "a">>, <<"b", "s", "c">>, <<"m", "s", "c">>, <<"b", "s">>, <<"m", "s">>, <<"b", "a">>, <<"m", "a">>, <<"m", "b", "a">>, <<"p", "h", "d">> >>),
            ReOpt(<< ReAlt(<< <<".">> >>) >>),
            ReRun("space", 1, -1),
            ReOpt(<< ReAlt(<< <<"i", "n">> >>), ReRun("space", 1, -1) >>),
            ReRun("notnlcomma", 1, -1) >>,
       << ReAlt(<< <<"b", "a", "c", "h", "e", "l", "o", "r">>, <<"m", "a", "s", "t", "e", "r">>, <<"d", "o", "c", "t", "o", "r", "a", "t", "e">> >>),
            ReRun("space", 1, -1),
            ReAlt(<< <<"d", "e", "g", "r", "e", "e">> >>),
            ReRun("space", 1, -1),
            ReOpt(<< ReAlt(<< <<"i", "n">> >>), ReRun("space", 1, -1) >>),
            ReRun("notnlcomma", 1, -1) >> >>

\* rf"\b{keyword}\b[^\n]{{0,50}}": the keyword is not escaped, its dots
\* match any character but a newline
DegreeKeywordPattern(keyword) ==
    << ReWordBoundary,
       ReAlt(<< [k \in 1..Len(keyword) |-> IF keyword[k] = "." THEN "ANY" ELSE keyword[k]] >>),
       ReWordBoundary,
       ReRun("notnl", 0, 50) >>

HasField(match) ==
    \E f \in 1..Len(_FIELD_KEYWORDS) : Contains(lower(match), lower(_FIELD_KEYWORDS[f]))

\* the matches of the degree patterns, then the stripped matches of the
\* keyword patterns that name a field of study
DegreeMatches(text, text_lower) ==
    LET Stripped(matches) == [n \in 1..Len(matches) |-> strip(matches[n])]
    IN  Concat([p \in 1..Len(_DEGREE_PATTERNS) |->
                  SpanTexts(text, ReFindAll(text_lower, _DEGREE_PATTERNS[p], 1, <<>>))])
        \o Concat([w \in 1..Len(_DEGREE_KEYWORDS) |->
                     Stripped(FilterSeq(SpanTexts(text, ReFindAll(text_lower,
                                                                 DegreeKeywordPattern(_DEGREE_KEYWORDS[w]),
                                                                 1, <<>>)),
                                        HasField))])

_extract_degree(text) == fromkeys(DegreeMatches(text, lower(text)))

AnyKeyword(keywords, text) == \E k \in 1..Len(keywords) : Contains(text, keywords[k])

\* the level named by degree_str, the lowercased degrees joined by blanks
LevelNamed(degree_str) ==
    IF AnyKeyword(<< <<"p", "h", "d">>, <<"d", "o", "c", "t", "o", "r">>, <<"d", "o", "c", "t", "o", "r", "a", "t", "e">> >>, degree_str) THEN "doctorate"
    ELSE IF AnyKeyword(<< <<"m", "a", "s", "t", "e", "r">>, <<"m", ".", "s", "c">>, <<"m", ".", "s">>, <<"m", ".", "a">>, <<"m", "b", "a">> >>, degree_str) THEN "master"
    ELSE IF AnyKeyword(<< <<"b", "a", "c", "h", "e", "l", "o", "r">>, <<"b", ".", "s", "c">>, <<"b", ".", "s">>, <<"b", ".", "a">> >>, degree_str) THEN "bachelor"
    ELSE IF AnyKeyword(<< <<"a", "s", "s", "o", "c", "i", "a", "t", "e">> >>, degree_str) THEN "associate"
    ELSE IF AnyKeyword(<< <<"d", "i", "p", "l", "o", "m", "a">>, <<"c", "e", "r", "t", "i", "f", "i", "c", "a", "t", "e">> >>, degree_str) THEN "diploma"
    ELSE "unknown"

_determine_education_level(degrees) ==
    IF degrees = <<>> THEN "unknown" ELSE LevelNamed(lower(join_space(degrees)))

\* the degrees and the education level of extract_education; institutions,
\* years and entries are not read by the scorer and are not represented
EducationOf(degrees) ==
    [degrees |-> degrees, education_level |-> _determine_education_level(degrees)]

extract_education(text) == EducationOf(_extract_degree(text))

(***************************************************************************)
(* Total experience (nlp/experience_extractor.py).                         *)
(***************************************************************************)
\* re.findall(r"(\d+)\s+unit s?", text, re.IGNORECASE): the digit runs
DurationPattern(unit) ==
    << ReRun("digit", 1, -1), ReRun("space", 1, -1), ReAlt(<< unit >>), ReOpt(<< ReAlt(<< <<"s">> >>) >>) >>

LeadingDigits(match) == SubSeq(match, 1, ReRunEnd(match, 1, "digit", -1) - 1)

RECURSIVE SumOf(_)
SumOf(numbers) == IF numbers = <<>> THEN 0 ELSE Head(numbers) + SumOf(Tail(numbers))

DurationTotal(text, unit) ==
    LET matches == re_findall(DurationPattern(unit), text)
    IN  SumOf([n \in 1..Len(matches) |-> DigitsValue(LeadingDigits(matches[n]), 0)])

_extract_total_experience_months(text) ==
    12 * DurationTotal(text, <<"y", "e", "a", "r">>) + DurationTotal(text, <<"m", "o", "n", "t", "h">>)

\* round(total_months / 12, 1): a quotient by 12 that lies half way between
\* two tenths is an odd number of quarters, which a float holds exactly, so
\* the tie goes to the even tenth
RoundedYears(total_months) ==
    LET tenths == 10 * total_months
        below == tenths \div 12
    IN  IF 2 * (tenths % 12) < 12 THEN Rat(below, 10)
        ELSE IF 2 * (tenths % 12) > 12 THEN Rat(below + 1, 10)
        ELSE IF below % 2 = 0 THEN Rat(below, 10)
        ELSE Rat(below + 1, 10)

total_years_estimated(text) == RoundedYears(_extract_total_experience_months(text))

(***************************************************************************)
(* Match scorer (nlp/scorer.py).  Scores are exact rationals; round() and  *)
(* int() give the set of results the float computation may produce.        *)
(***************************************************************************)
\* _WEIGHTS of the scorer
scorer_WEIGHTS ==
    [skills_match |-> Rat(50, 100), experience_match |-> Rat(30, 100),
     education_match |-> Rat(15, 100), keyword_overlap |-> Rat(5, 100)]

_EDUCATION_LEVELS ==
    [level \in {"unknown", "diploma", "associate", "bachelor", "master", "doctorate"} |->
        CASE level = "unknown" -> 0
          [] level = "diploma" -> 1
          [] level = "associate" -> 2
          [] level = "bachelor" -> 3
          [] level = "master" -> 4
          [] level = "doctorate" -> 5]

\* _tokenize of the scorer
scorer_tokenize(text) ==
    LET runs == WordRuns(text, 1, <<>>)
    IN  [k \in 1..Len(runs) |-> lower(runs[k])]

\* re.search(pattern, text, re.IGNORECASE) is not None
re_search(items, text) == \E i \in 1..Len(text) : ReEnd(lower(text), i, items, 1) # 0

\* the tail \s*years?\s*(?:of\s+)?experience of both year patterns
YearsTail ==
    << ReRun("space", 0, -1), ReAlt(<< <<"y", "e", "a", "r">> >>), ReOpt(<< ReAlt(<< <<"s">> >>) >>), ReRun("space", 0, -1),
       ReOpt(<< ReAlt(<< <<"o", "f">> >>), ReRun("space", 1, -1) >>), ReAlt(<< <<"e", "x", "p", "e", "r", "i", "e", "n", "c", "e">> >>) >>

\* year_patterns
year_patterns ==
    << << ReRun("digit", 1, -1), ReOpt(<< ReAlt(<< <<"+">> >>) >>) >> \o YearsTail,
       << ReRun("digit", 1, -1), ReRun("space", 0, -1), ReAlt(<< <<"-">> >>), ReRun("space", 0, -1),
          ReRun("digit", 1, -1) >> \o YearsTail >>

\* match[-1] of a match of the range pattern: its second run of digits
UpperBound(match) ==
    LET dash == ReRunEnd(match, ReRunEnd(match, 1, "digit", -1), "space", -1)
    IN  LeadingDigits(SliceFrom(match, ReRunEnd(match, dash + 1, "space", -1)))

RECURSIVE MaxOf(_, _)
MaxOf(numbers, acc) ==
    IF numbers = <<>> THEN acc ELSE MaxOf(Tail(numbers), Max(acc, Head(numbers)))

\* the numbers the loop over year_patterns compares result["years"] with
RequiredYears(jd) ==
    LET single == re_findall(year_patterns[1], jd)
        ranges == re_findall(year_patterns[2], jd)
    IN  [n \in 1..Len(single) |-> DigitsValue(LeadingDigits(single[n]), 0)]
        \o [n \in 1..Len(ranges) |-> DigitsValue(UpperBound(ranges[n]), 0)]

level_keywords == << <<"j", "u", "n", "i", "o", "r">>, <<"m", "i", "d">>, <<"s", "e", "n", "i", "o", "r">>, <<"l", "e", "a", "d">>, <<"p", "r", "i", "n", "c", "i", "p", "a", "l">>, <<"a", "r", "c", "h", "i", "t", "e", "c", "t">> >>

_extract_required_experience(jd) ==
    LET Named(level) == SkillOccurs(lower(jd), level)
    IN  [years |-> MaxOf(RequiredYears(jd), 0),
         levels |-> FilterSeq(level_keywords, Named)]

\* level_patterns with the level each one stands for; master['']s? is
\* written as the two texts it can match
level_patterns ==
    << [level |-> "doctorate", pattern |-> << ReAlt(<< <<"p", "h", "d">>, <<"d", "o", "c", "t", "o", "r", "a", "t", "e">>, <<"d", "o", "c", "t", "o", "r">> >>), ReRun("space", 0, -1), ReOpt(<< ReAlt(<< <<"d", "e", "g", "r", "e", "e">> >>) >>) >>],
       [level |-> "master", pattern |-> << ReAlt(<< <<"m", "a", "s", "t", "e", "r", "'", "s">>, <<"m", "a", "s", "t", "e", "r", "'">>, <<"m", ".", "s", "c">>, <<"m", ".", "a">>, <<"m", "s", "c">>, <<"m", "a">> >>), ReRun("space", 0, -1), ReOpt(<< ReAlt(<< <<"d", "e", "g", "r", "e", "e">> >>) >>) >>],
       [level |-> "bachelor", pattern |-> << ReAlt(<< <<"b", "a", "c", "h", "e", "l", "o", "r", "'", "s">>, <<"b", "a", "c", "h", "e", "l", "o", "r", "'">>, <<"b", ".", "s", "c">>, <<"b", ".", "a">>, <<"b", "s", "c">>, <<"b", "a">> >>), ReRun("space", 0, -1), ReOpt(<< ReAlt(<< <<"d", "e", "g", "r", "e", "e">> >>) >>) >>],
       [level |-> "associate", pattern |-> << ReAlt(<< <<"a", "s", "s", "o", "c", "i", "a", "t", "e", "'", "s">>, <<"a", "s", "s", "o", "c", "i", "a", "t", "e", "'">> >>), ReRun("space", 0, -1), ReOpt(<< ReAlt(<< <<"d", "e", "g", "r", "e", "e">> >>) >>) >>] >>

field_keywords ==
    << <<"c", "o", "m", "p", "u", "t", "e", "r", " ", "s", "c", "i", "e", "n", "c", "e">>, <<"d", "a", "t", "a", " ", "s", "c", "i", "e", "n", "c", "e">>, <<"s", "o", "f", "t", "w", "a", "r", "e", " ", "e", "n", "g", "i", "n", "e", "e", "r", "i", "n", "g">>,
       <<"i", "n", "f", "o", "r", "m", "a", "t", "i", "o", "n", " ", "t", "e", "c", "h", "n", "o", "l", "o", "g", "y">>, <<"m", "a", "t", "h", "e", "m", "a", "t", "i", "c", "s">>, <<"s", "t", "a", "t", "i", "s", "t", "i", "c", "s">>,
       <<"b", "u", "s", "i", "n", "e", "s", "s">>, <<"e", "c", "o", "n", "o", "m", "i", "c", "s">>, <<"e", "n", "g", "i", "n", "e", "e", "r", "i", "n", "g">> >>

\* the level of the first of level_patterns[k..] found in the text
RECURSIVE FirstLevel(_, _)
FirstLevel(jd, k) ==
    IF k > Len(level_patterns) THEN None
    ELSE IF re_search(level_patterns[k].pattern, jd) THEN Some(level_patterns[k].level)
    ELSE FirstLevel(jd, k + 1)

_extract_required_education(jd) ==
    LET Named(field) == Contains(lower(jd), field)
    IN  [level |-> FirstLevel(jd, 1),
         fields |-> FilterSeq(field_keywords, Named)]

LowerSet(skills) == { lower(skills[k]) : k \in 1..Len(skills) }

\* mutation: the quotient counts the required skills the resume lacks
_score_skills_match_missed(jd_skills, resume_skills) ==
    IF jd_skills = <<>> THEN Zero
    ELSE IF LowerSet(resume_skills) = {} THEN Zero
    ELSE Rat(Cardinality(LowerSet(jd_skills) \ LowerSet(resume_skills)),
             Cardinality(LowerSet(jd_skills)))

_score_skills_match(jd_skills, resume_skills) ==
    IF jd_skills = <<>> THEN Zero
    ELSE IF LowerSet(resume_skills) = {} THEN Zero
    ELSE Rat(Cardinality(LowerSet(jd_skills) \cap LowerSet(resume_skills)),
             Cardinality(LowerSet(jd_skills)))

RLt(x, y) == ~ RLe(y, x)

\* mutation: a threshold counts only when the resume years exceed it
YearsCredit_strict(required_years, resume_years) ==
    IF required_years > 0
    THEN IF RLt(Rat(required_years, 1), resume_years) THEN One
         ELSE IF RLt(Rat(3 * required_years, 4), resume_years) THEN Rat(3, 4)
         ELSE IF RLt(Rat(required_years, 2), resume_years) THEN Rat(1, 2)
         ELSE IF RLt(Zero, resume_years) THEN Rat(1, 4)
         ELSE Zero
    ELSE IF RLt(Zero, resume_years) THEN Rat(1, 2) ELSE Zero

\* the credit for the years of experience
YearsCredit(required_years, resume_years) ==
    IF required_years > 0
    THEN IF RLe(Rat(required_years, 1), resume_years) THEN One
         ELSE IF RLe(Rat(3 * required_years, 4), resume_years) THEN Rat(3, 4)
         ELSE IF RLe(Rat(required_years, 2), resume_years) THEN Rat(1, 2)
         ELSE IF RLt(Zero, resume_years) THEN Rat(1, 4)
         ELSE Zero
    ELSE IF RLt(Zero, resume_years) THEN Rat(1, 2) ELSE Zero

\* the credit for a required level named in the resume's job titles
LevelCredit(required_levels, job_titles) ==
    IF \E k \in 1..Len(required_levels) : Contains(lower(join_space(job_titles)), required_levels[k])
    THEN Rat(2, 10)
    ELSE Zero

_score_experience_match(jd_requirements, resume_experience) ==
    RMin(RAdd(YearsCredit(jd_requirements.years, resume_experience.total_years_estimated),
              LevelCredit(jd_requirements.levels, resume_experience.job_titles)),
         One)

\* mutation: any resume level below the required one earns the half credit
EducationLevelCredit_any_below(required_level, resume_level) ==
    IF required_level # None
    THEN IF _EDUCATION_LEVELS[resume_level] >= _EDUCATION_LEVELS[required_level[1]] THEN One
         ELSE Rat(1, 2)
    ELSE IF resume_level \in {"bachelor", "master", "doctorate"} THEN Rat(1, 2)
    ELSE IF resume_level \in {"associate", "diploma"} THEN Rat(3, 10)
    ELSE Zero

\* the credit for the education level
EducationLevelCredit(required_level, resume_level) ==
    IF required_level # None
    THEN IF _EDUCATION_LEVELS[resume_level] >= _EDUCATION_LEVELS[required_level[1]] THEN One
         ELSE IF _EDUCATION_LEVELS[resume_level] >= _EDUCATION_LEVELS[required_level[1]] - 1
              THEN Rat(1, 2)
         ELSE Zero
    ELSE IF resume_level \in {"bachelor", "master", "doctorate"} THEN Rat(1, 2)
    ELSE IF resume_level \in {"associate", "diploma"} THEN Rat(3, 10)
    ELSE Zero

\* the credit for a required field of study named in the resume's degrees
FieldCredit(required_fields, degrees) ==
    IF \E k \in 1..Len(required_fields) : Contains(lower(join_space(degrees)), required_fields[k])
    THEN Rat(3, 10)
    ELSE Zero

_score_education_match(jd_requirements, resume_education) ==
    RMin(RAdd(EducationLevelCredit(jd_requirements.level, resume_education.education_level),
              FieldCredit(jd_requirements.fields, resume_education.degrees)),
         One)

\* stop_words of _score_keyword_overlap
scorer_stop_words ==
    { <<"t", "h", "e">>, <<"a">>, <<"a", "n">>, <<"a", "n", "d">>, <<"o", "r">>,
      <<"b", "u", "t">>, <<"i", "n">>, <<"o", "n">>, <<"a", "t">>, <<"t", "o">>,
      <<"f", "o", "r">>, <<"o", "f">>, <<"w", "i", "t", "h">>, <<"b", "y">>, <<"a", "s">>,
      <<"i", "s">>, <<"a", "r", "e">>, <<"w", "a", "s">>, <<"w", "e", "r", "e">>, <<"b", "e">>,
      <<"b", "e", "e", "n">>, <<"h", "a", "v", "e">>, <<"h", "a", "s">>, <<"h", "a", "d">>, <<"d", "o">>,
      <<"d", "o", "e", "s">>, <<"d", "i", "d">>, <<"w", "i", "l", "l">>, <<"w", "o", "u", "l", "d">>, <<"c", "o", "u", "l", "d">>,
      <<"s", "h", "o", "u", "l", "d">>, <<"m", "a", "y">>, <<"m", "i", "g", "h", "t">>, <<"m", "u", "s", "t">>, <<"c", "a", "n">>,
      <<"t", "h", "i", "s">>, <<"t", "h", "a", "t">>, <<"t", "h", "e", "s", "e">>, <<"t", "h", "o", "s", "e">>, <<"i">>,
      <<"y", "o", "u">>, <<"h", "e">>, <<"s", "h", "e">>, <<"i", "t">>, <<"w", "e">>,
      <<"t", "h", "e", "y">>, <<"m", "y">>, <<"y", "o", "u", "r">>, <<"o", "u", "r">>, <<"t", "h", "e", "i", "r">>,
      <<"w", "o", "r", "k">>, <<"w", "o", "r", "k", "i", "n", "g">>, <<"t", "e", "a", "m">>, <<"r", "o", "l", "e">>, <<"p", "o", "s", "i", "t", "i", "o", "n">>,
      <<"j", "o", "b">>, <<"c", "a", "n", "d", "i", "d", "a", "t", "e">> }

\* the job-description tokens that count, with their repetitions
CountedTokens(jd_text) ==
    LET Counted(token) == token \notin scorer_stop_words /\ Len(token) > 2
    IN  FilterSeq(scorer_tokenize(jd_text), Counted)

\* overlap_sum: min(jd_count, resume count) summed over the distinct tokens
OverlapSum(jd_tokens, resume_tokens) ==
    SumOf([k \in 1..Len(fromkeys(jd_tokens)) |->
             Min(CountOf(jd_tokens, fromkeys(jd_tokens)[k]),
                 CountOf(resume_tokens, fromkeys(jd_tokens)[k]))])

_score_keyword_overlap(jd_text, resume) ==
    IF CountedTokens(jd_text) = <<>> THEN Zero
    ELSE Rat(OverlapSum(CountedTokens(jd_text), scorer_tokenize(resume)),
             Len(CountedTokens(jd_text)))

\* one sentence of the explanation: what it says and the values it names
Sentence(kind, skills, years, level) ==
    [kind |-> kind, skills |-> skills, years |-> years, level |-> level]

\* dict.get(key): the value, None when the dict has no such key
DictGet(dict, key) == IF key \in DOMAIN dict THEN dict[key] ELSE None

SkillSentences(jd_set, resume_set) ==
    (IF jd_set \cap resume_set # {}
     THEN << Sentence("Matched skills", SortedTexts(jd_set \cap resume_set), 0, "") >> ELSE <<>>)
    \o (IF jd_set \ resume_set # {}
        THEN << Sentence("Missing required skills", SortedTexts(jd_set \ resume_set), 0, "") >>
        ELSE <<>>)

ExperienceSentences(req_years, resume_years) ==
    IF req_years > 0
    THEN IF RLe(Rat(req_years, 1), resume_years)
         THEN << Sentence("Meets experience requirement", <<>>, req_years, "") >>
         ELSE << Sentence("Has years experience", <<>>, req_years, "") >>
    ELSE <<>>

EducationSentences(req_edu_level, resume_edu_level) ==
    IF req_edu_level # None
    THEN IF resume_edu_level = req_edu_level
         THEN << Sentence("Meets education requirement", <<>>, 0, req_edu_level[1]) >>
         ELSE IF resume_edu_level # None /\ resume_edu_level[1] \in {"master", "doctorate"}
                 /\ req_edu_level = Some("bachelor")
              THEN << Sentence("Exceeds education requirement", <<>>, 0, resume_edu_level[1]) >>
         ELSE IF resume_edu_level # None /\ resume_edu_level # Some("")
              THEN << Sentence("Has degree", <<>>, 0, resume_edu_level[1]) >>
         ELSE << Sentence("Education level unclear", <<>>, 0, req_edu_level[1]) >>
    ELSE <<>>

\* the percent of the "Overall Match Score" sentence
ExplanationPercent(skills_match, experience_match, education_match) ==
    int(RMul(RAdd(RAdd(RAdd(RMul(skills_match, Rat(5, 10)), RMul(experience_match, Rat(3, 10))),
                       RMul(education_match, Rat(15, 100))),
                  Rat(5, 100)),
             Rat(100, 1)))

\* the possible explanations: the percent of the first sentence and the
\* sentences that follow it
_generate_explanation(skills_match, experience_match, education_match, jd_skills, resume_skills, jd_requirements, resume_data) ==
    { [percent |-> p,
       sentences |->
           SkillSentences(LowerSet(jd_skills), LowerSet(resume_skills))
           \o ExperienceSentences(jd_requirements.years,
                                  resume_data.experience.total_years_estimated)
           \o EducationSentences(DictGet(jd_requirements, "level"),
                                 Some(resume_data.education.education_level))] :
        p \in ExplanationPercent(skills_match, experience_match, education_match) }

\* the weighted overall score
OverallMatch(skills_match, experience_match, education_match, keyword_overlap) ==
    RAdd(RAdd(RAdd(RMul(skills_match, scorer_WEIGHTS.skills_match),
                   RMul(experience_match, scorer_WEIGHTS.experience_match)),
              RMul(education_match, scorer_WEIGHTS.education_match)),
         RMul(keyword_overlap, scorer_WEIGHTS.keyword_overlap))

\* the possible results once the four component scores are known
MatchResult(skills_match, experience_match, education_match, keyword_overlap, jd_requirements, resume_skills, resume_education, resume_experience) ==
    { [overall_score |-> o,
       overall_score_percent |-> p,
       component_scores |-> [skills_match |-> s, experience_match |-> x,
                             education_match |-> d, keyword_overlap |-> k],
       explanation |-> e,
       resume_data |-> [skills |-> resume_skills, education |-> resume_education,
                        experience |-> resume_experience],
       job_requirements |-> jd_requirements] :
        o \in round(OverallMatch(skills_match, experience_match, education_match,
                                 keyword_overlap), 3),
        p \in int(RMul(OverallMatch(skills_match, experience_match, education_match,
                                    keyword_overlap), Rat(100, 1))),
        s \in round(skills_match, 3),
        x \in round(experience_match, 3),
        d \in round(education_match, 3),
        k \in round(keyword_overlap, 3),
        e \in _generate_explanation(skills_match, experience_match, education_match,
                                    jd_requirements.skills, resume_skills.technical,
                                    jd_requirements.experience,
                                    [experience |-> resume_experience,
                                     education |-> resume_education]) }

\* the component scores of the extracted data
MatchScored(jd_requirements, resume_skills, resume_education, resume_experience, jd, resume) ==
    MatchResult(_score_skills_match(jd_requirements.skills, resume_skills.technical),
                _score_experience_match(jd_requirements.experience, resume_experience),
                _score_education_match(jd_requirements.education, resume_education),
                _score_keyword_overlap(jd, resume),
                jd_requirements, resume_skills, resume_education, resume_experience)

\* the possible results of calculate_match_score; of extract_experience the
\* job titles and the estimated years are what the scorer reads
calculate_match_score(jd, resume) ==
    MatchScored([experience |-> _extract_required_experience(jd),
                 education |-> _extract_required_education(jd),
                 skills |-> extract_skills(jd).technical],
                extract_skills(resume),
                extract_education(resume),
                [job_titles |-> extract_experience(resume).job_titles,
                 total_years_estimated |-> total_years_estimated(resume)],
                jd, resume)

(***************************************************************************)
(* Specification of one call of calculate_match_score.                     *)
(***************************************************************************)
MaxMatchJobPieces == 2      \* job descriptions: at most this many pieces
MaxMatchResumePieces == 1   \* resumes: at most this many pieces

MatchPieces ==
    { <<"A", "W", "S", " ">>,
      <<"P", "h", "D", " ", "x", " ">>,
      <<"M", "B", "A", " ", "x", " ">>,
      <<"2", " ", "y", "e", "a", "r", "s", " ", "e", "x", "p", "e", "r", "i", "e", "n", "c", "e", " ">> }

MatchJobTexts == TextsOf(MatchPieces, MaxMatchJobPieces)
MatchResumeTexts == TextsOf(MatchPieces, MaxMatchResumePieces)

MatchInit ==
    /\ EngineIdle
    /\ PlannerOff
    /\ StoreOff
    /\ fn_in \in [job_description : MatchJobTexts, resume_text : MatchResumeTexts]
    /\ fn_out = None
    /\ fn_pc = "match"

\* calculate_match_score(job_description, resume_text)
CalculateMatchScore ==
    /\ fn_pc = "match"
    /\ \E r \in calculate_match_score(fn_in.job_description, fn_in.resume_text) :
          fn_out' = Some(r)
    /\ fn_pc' = "matched"
    /\ UNCHANGED fn_in
    /\ UNCHANGED sessionVars
    /\ UNCHANGED planVars
    /\ UNCHANGED storeVars

MatchNext == CalculateMatchScore

MatchSpec == MatchInit /\ [][MatchNext]_vars

(***************************************************************************)
(* Properties of the match scorer (specification MatchSpec).               *)
(***************************************************************************)
Matched == fn_pc = "matched"

\* what the sentences after the percent of an explanation say
SentenceKinds(explanation) ==
    { explanation.sentences[k].kind : k \in 1..Len(explanation.sentences) }

SelfMatch == fn_in.resume_text = fn_in.job_description

\* C14: for every job description jd whose extracted technical skill list
\* is non-empty, calculate_match_score(jd, jd) reports the component score
\* skills_match = 1.0 and its explanation lists no missing required skills.
C14_SelfMatchSkillsScore ==
    (Matched /\ SelfMatch /\ extract_skills(fn_in.job_description).technical # <<>>) =>
        /\ fn_out[1].component_scores.skills_match = One
        /\ "Missing required skills" \notin SentenceKinds(fn_out[1].explanation)

\* a job description that names a technical skill has been matched against
\* itself
C14_Witness ==
    /\ Matched
    /\ SelfMatch
    /\ fn_out[1].job_requirements.skills # <<>>
    /\ fn_out[1].resume_data.skills.technical = fn_out[1].job_requirements.skills
    /\ "Matched skills" \in SentenceKinds(fn_out[1].explanation)

\* C15: the percent that prefixes the explanation ("Overall Match Score:
\* P%") equals the overall_score_percent of the same result, for every
\* combination of component scores.
C15_ExplanationPercentIsOverallPercent ==
    Matched => fn_out[1].explanation.percent = fn_out[1].overall_score_percent

\* C16: whenever the job description yields a required education level, the
\* explanation contains an education-requirement sentence: "Meets education
\* requirement" when the resume level equals the required level, "Exceeds
\* education requirement" when the resume level is master or doctorate
\* against a bachelor requirement, and otherwise a sentence that states the
\* resume level against the required level.
C16_EducationSentencePresent ==
    (Matched /\ fn_out[1].job_requirements.education.level # None) =>
        IF fn_out[1].resume_data.education.education_level
               = fn_out[1].job_requirements.education.level[1]
        THEN "Meets education requirement" \in SentenceKinds(fn_out[1].explanation)
        ELSE IF /\ fn_out[1].resume_data.education.education_level \in {"master", "doctorate"}
                /\ fn_out[1].job_requirements.education.level[1] = "bachelor"
        THEN "Exceeds education requirement" \in SentenceKinds(fn_out[1].explanation)
        ELSE "Has degree" \in SentenceKinds(fn_out[1].explanation)

(***************************************************************************)
(* Shortlisting policy (domain/policies/shortlisting.py).                  *)
(***************************************************************************)
\* mutation: the score is taken over the resume's tokens
token_overlap_score_of_resume(jd, resume) ==
    IF Range(tokenize(jd)) = {} THEN Zero
    ELSE IF Range(tokenize(resume)) = {} THEN Zero
    ELSE Rat(Cardinality(Range(tokenize(jd)) \cap Range(tokenize(resume))),
             Cardinality(Range(tokenize(resume))))

\* jd = set(tokenize(job_description)), cv = set(tokenize(resume_text));
\* 0.0 when jd is empty, else len(jd & cv) / len(jd)
token_overlap_score(jd, resume) ==
    IF Range(tokenize(jd)) = {} THEN Zero
    ELSE Rat(Cardinality(Range(tokenize(jd)) \cap Range(tokenize(resume))),
             Cardinality(Range(tokenize(jd))))

(***************************************************************************)
(* Specification of one call of tokenize or of token_overlap_score.        *)
(***************************************************************************)
MaxTokenPieces == 3           \* tokenized texts: at most this many pieces
MaxOverlapJobPieces == 3      \* scored job descriptions: at most this many pieces
MaxOverlapResumePieces == 2   \* scored resumes: at most this many pieces

TokenPieces == { <<"A">>, <<"a">>, <<"1">>, <<" ">>, <<"_">>, <<"MIDDOT">> }
OverlapPieces == { <<"A">>, <<"a">>, <<"b">>, <<" ">> }

TokenTexts == TextsOf(TokenPieces, MaxTokenPieces)
OverlapJobTexts == TextsOf(OverlapPieces, MaxOverlapJobPieces)
OverlapResumeTexts == TextsOf(OverlapPieces, MaxOverlapResumePieces)

ShortlistInit ==
    /\ EngineIdle
    /\ PlannerOff
    /\ StoreOff
    /\ fn_out = None
    /\ \/ fn_pc = "tokenize" /\ fn_in \in [text : TokenTexts]
       \/ fn_pc = "overlap"
          /\ fn_in \in [job_description : OverlapJobTexts, resume_text : OverlapResumeTexts]

\* tokenize(text)
Tokenize ==
    /\ fn_pc = "tokenize"
    /\ fn_out' = Some(tokenize(fn_in.text))
    /\ fn_pc' = "tokenized"
    /\ UNCHANGED fn_in
    /\ UNCHANGED sessionVars
    /\ UNCHANGED planVars
    /\ UNCHANGED storeVars

\* token_overlap_score(job_description, resume_text)
TokenOverlapScore ==
    /\ fn_pc = "overlap"
    /\ fn_out' = Some(token_overlap_score(fn_in.job_description, fn_in.resume_text))
    /\ fn_pc' = "scored"
    /\ UNCHANGED fn_in
    /\ UNCHANGED sessionVars
    /\ UNCHANGED planVars
    /\ UNCHANGED storeVars

ShortlistNext == Tokenize \/ TokenOverlapScore

ShortlistSpec == ShortlistInit /\ [][ShortlistNext]_vars

(***************************************************************************)
(* Properties of the shortlisting policy (specification ShortlistSpec).    *)
(***************************************************************************)
Tokenized == fn_pc = "tokenized"
Scored == fn_pc = "scored"

\* the positions where a maximal run of ASCII letters and digits starts
\* (resp. ends)
RunStarts(text) ==
    { i \in 1..Len(text) : IsAlnum(text[i]) /\ (i = 1 \/ ~ IsAlnum(text[i - 1])) }
RunEnds(text) ==
    { i \in 1..Len(text) : IsAlnum(text[i]) /\ (i = Len(text) \/ ~ IsAlnum(text[i + 1])) }

\* the n-th smallest element of a set of numbers
Nth(S, n) == CHOOSE x \in S : Cardinality({ y \in S : y < x }) = n - 1

\* C17: tokenize(T) returns, in text order and without deduplication,
\* exactly the maximal runs of ASCII letters and digits of T converted to
\* lowercase; every token is non-empty and contains only lowercase letters
\* and digits; tokenize("") is the empty list.
C17_TokenizeRuns ==
    Tokenized =>
        /\ Len(fn_out[1]) = Cardinality(RunStarts(fn_in.text))
        /\ \A n \in 1..Len(fn_out[1]) :
              /\ fn_out[1][n] = lower(SubSeq(fn_in.text, Nth(RunStarts(fn_in.text), n),
                                             Nth(RunEnds(fn_in.text), n)))
              /\ fn_out[1][n] # <<>>
              /\ \A k \in 1..Len(fn_out[1][n]) : IsLowerAlnum(fn_out[1][n][k])
        /\ fn_in.text = <<>> => fn_out[1] = <<>>

\* a text with an uppercase letter and a repeated token has been tokenized
C17_Witness ==
    /\ Tokenized
    /\ \E i \in 1..Len(fn_in.text) : fn_in.text[i] \in Range(UpperCase)
    /\ Len(fn_out[1]) = 2
    /\ fn_out[1][1] = fn_out[1][2]

\* C18: token_overlap_score(jd, resume) equals the number of distinct
\* job-description tokens that also occur in the resume divided by the
\* number of distinct job-description tokens; it lies in [0, 1], is 0.0 when
\* the job description has no tokens, and is strictly greater than 0
\* whenever the two texts share at least one token.
C18_TokenOverlapScore ==
    Scored =>
        LET jd == Range(tokenize(fn_in.job_description))
            cv == Range(tokenize(fn_in.resume_text))
        IN  /\ jd # {} =>
                  fn_out[1].num * Cardinality(jd) = fn_out[1].den * Cardinality(jd \cap cv)
            /\ RLe(Zero, fn_out[1]) /\ RLe(fn_out[1], One)
            /\ jd = {} => fn_out[1] = Zero
            /\ jd \cap cv # {} => RLt(Zero, fn_out[1])

\* a job description with two distinct tokens has been scored against a
\* resume that shares one of them, written in the other case
C18_Witness ==
    /\ Scored
    /\ Cardinality(Range(tokenize(fn_in.job_description))) = 2
    /\ Range(_WORD_RE_findall(fn_in.job_description)) \cap Range(_WORD_RE_findall(fn_in.resume_text)) = {}
    /\ fn_out[1] = Rat(1, 2)

(***************************************************************************)
(* Frame of submit_answer (specification Spec).                            *)
(***************************************************************************)
\* C19: a successful submit_answer changes only the answer of the turn at
\* the old next_turn_index, next_turn_index itself, and (when that was the
\* last turn) status and ended_at; every question text, the number and order
\* of turns, all previously stored answers, session_id, started_at and
\* metadata are unchanged, so the questions stay those planned at the start.
C19_SubmitFrame ==
    [][ (AnswerStep /\ result'.raised = None) =>
            /\ Len(state'.turns) = Len(state.turns)
            /\ \A k \in 1..Len(state.turns) :
                  /\ state'.turns[k].question = state.turns[k].question
                  /\ state'.turns[k].question = planned[k]
                  /\ k # state.next_turn_index + 1 => state'.turns[k].answer = state.turns[k].answer
            /\ state'.session_id = state.session_id
            /\ state'.started_at = state.started_at
            /\ state'.metadata = state.metadata
            /\ state.next_turn_index + 1 < Len(state.turns) =>
                  (state'.status = state.status /\ state'.ended_at = state.ended_at) ]_vars

\* a second answer has been accepted: the first answer is still stored and
\* questions remain
C19_Witness ==
    /\ Running
    /\ result.op = "answer"
    /\ result.raised = None
    /\ state.next_turn_index = 2
    /\ Len(state.turns) > 2
    /\ state.turns[1].answer = Some("a1")
    /\ state.turns[2].answer = Some("")
    /\ state.status = "active"

(***************************************************************************)
(* Specification of one planner call on texts made of skill names: terms   *)
(* that repeat, terms of the resume, and a certification name written      *)
(* inside a longer word.                                                   *)
(***************************************************************************)
MaxTermJobPieces == 3      \* job descriptions: at most this many pieces
MaxTermResumePieces == 2   \* resumes: at most this many pieces

TermJobPieces == { <<"A", "W", "S", " ">>, <<"g", "o", " ">>, <<"p", "m", "p">> }
TermResumePieces == { <<"a", "w", "s", " ">>, <<"g", "o", " ", "L", "e", "a", "d", " ">> }

TermJobTexts == TextsOf(TermJobPieces, MaxTermJobPieces)
TermResumeTexts == TextsOf(TermResumePieces, MaxTermResumePieces) \ {<<>>}
TermQuestionCounts == 4..MaxQuestions

TermPlanInit ==
    /\ EngineIdle
    /\ job_description \in TermJobTexts
    /\ resume_text \in { Some(cv) : cv \in TermResumeTexts }
    /\ max_questions \in TermQuestionCounts
    /\ plan = <<>>
    /\ plan_pc = "call"
    /\ fn_in = <<>>
    /\ fn_out = <<>>
    /\ fn_pc = "off"
    /\ StoreOff

TermPlanSpec == TermPlanInit /\ [][PlanNext]_vars

(***************************************************************************)
(* Properties of the targeted questions (specification TermPlanSpec).      *)
(***************************************************************************)
\* the questions between the intro and the behavioral question
PlanMiddle == SubSeq(plan, 2, Len(plan) - 2)

\* the highlight question, when the plan has one
PlanHighlight ==
    IF Len(plan) >= 4 /\ plan[2].template = HighlightQuestion(<<>>).template
    THEN <<plan[2]>> ELSE <<>>

\* required terms: the skills of the job description and its 25 most
\* frequent tokens of three characters or more that are not stopwords
RequiredTerms(jd) ==
    LET skills == extract_skills(jd)
        Eligible(t) == t \notin _STOPWORDS /\ Len(t) >= 3
        common == most_common(FilterSeq(tokenize(jd), Eligible), 25)
    IN  Range(skills.technical) \cup Range(skills.soft)
        \cup { common[k].term : k \in 1..Len(common) }

\* resume term set: the skills of the resume and its tokens of three
\* characters or more
ResumeTerms(cv) ==
    LET skills == extract_skills(cv)
    IN  Range(skills.technical) \cup Range(skills.soft)
        \cup { t \in Range(tokenize(cv)) : Len(t) >= 3 }

Occurrences(jd, term) == _term_count(lower(jd), term)

\* the terms of a set by descending number of occurrences in the job
\* description, ties in alphabetical order
RECURSIVE RankedTerms(_, _)
RankedTerms(jd, terms) ==
    IF terms = {} THEN <<>>
    ELSE LET first == CHOOSE t \in terms : \A u \in terms \ {t} :
                          \/ Occurrences(jd, t) > Occurrences(jd, u)
                          \/ Occurrences(jd, t) = Occurrences(jd, u) /\ TextLess(t, u)
         IN  <<first>> \o RankedTerms(jd, terms \ {first})

\* round r and the later rounds: the matched question of the round, then
\* its gap question, each while its list lasts
RECURSIVE InterleavedQuestions(_, _, _)
InterleavedQuestions(matched, gaps, r) ==
    IF r > Len(matched) /\ r > Len(gaps) THEN <<>>
    ELSE (IF r <= Len(matched) THEN <<MatchedQuestion(matched[r])>> ELSE <<>>)
         \o (IF r <= Len(gaps) THEN <<GapQuestion(gaps[r])>> ELSE <<>>)
         \o InterleavedQuestions(matched, gaps, r + 1)

ExpectedMiddle(jd, matched, gaps, highlight, n) ==
    SliceTo(highlight
            \o InterleavedQuestions(RankedTerms(jd, matched), RankedTerms(jd, gaps), 1)
            \o Fallbacks, n - 3)

IsTermQuestion(q) ==
    q.template \in {MatchedQuestion(<<>>).template, GapQuestion(<<>>).template}

NoTermTwice ==
    \A a, b \in 1..Len(plan) :
        (a # b /\ IsTermQuestion(plan[a]) /\ IsTermQuestion(plan[b])) => plan[a].arg # plan[b].arg

\* the terms that the job description holds at least once, counted as
\* _term_count counts them
OccurringTerms(jd, terms) == { t \in terms : t # <<>> /\ Occurrences(jd, t) > 0 }

\* the middle of the plan is the expected list of the terms asked about,
\* split by presence in the resume term set, and no term is asked twice
TargetedAsExpected(jd, asked_about, present, n) ==
    /\ PlanMiddle = ExpectedMiddle(jd, asked_about \cap present, asked_about \ present,
                                   PlanHighlight, n)
    /\ NoTermTwice

\* C20 as stated: with a resume and N >= 4, the questions between the intro
\* and the behavioral question are the first N-3 elements of the optional
\* highlight question, the matched-term and gap-term questions interleaved
\* round by round with the matched one first, and the three fallback
\* questions; matched terms are the required terms in the resume term set,
\* gap terms the required terms outside it, each ranked by descending number
\* of occurrences in the job description, ties alphabetical; no term twice
C20_TargetedQuestions ==
    (Returned /\ HasResume /\ max_questions >= 4) =>
        TargetedAsExpected(job_description, RequiredTerms(job_description),
                           ResumeTerms(resume_text[1]), max_questions)

\* C20 amended: the same, for the required terms that occur at least once in
\* the job description as _term_count counts them; a required term with no
\* such occurrence is not asked about
C20_TargetedQuestionsOccurring ==
    (Returned /\ HasResume /\ max_questions >= 4) =>
        TargetedAsExpected(job_description,
                           OccurringTerms(job_description, RequiredTerms(job_description)),
                           ResumeTerms(resume_text[1]), max_questions)

\* a plan with a matched question, a gap question and a fallback question
\* after a highlight question, for a job description with a required term
\* that never occurs in it as a word
C20_Witness ==
    /\ Returned /\ HasResume /\ max_questions >= 4
    /\ \E t \in RequiredTerms(job_description) : Occurrences(job_description, t) = 0
    /\ PlanHighlight # <<>>
    /\ \E k \in 1..Len(plan) : plan[k].template = MatchedQuestion(<<>>).template
    /\ \E k \in 1..Len(plan) : plan[k].template = GapQuestion(<<>>).template
    /\ plan[Len(plan) - 2] = Fallbacks[1]

(***************************************************************************)
(* Specification of the highlight question: the text chosen as highlight   *)
(* (an achievement or a job title, both stripped and free of newlines) is  *)
(* truncated and quoted (interview_policy.py, lines 174-180).              *)
(***************************************************************************)
MaxHighlightSpare == 6   \* the shortest body is this much shorter than max_len
MaxHighlightTail == 2    \* pieces that follow the body

HighlightTailPieces == { <<"a">>, <<" ", "b">>, <<" ", " ">>, <<"\t">> }

HighlightBodies ==
    { [i \in 1..n |-> "a"] : n \in (TruncateMaxLen - MaxHighlightSpare)..(TruncateMaxLen + 1) }

HighlightTexts ==
    { t \in { body \o tail : body \in HighlightBodies,
                             tail \in TextsOf(HighlightTailPieces, MaxHighlightTail) } :
          ~ IsSpace(t[Len(t)]) }

HighlightInit ==
    /\ EngineIdle
    /\ PlannerOff
    /\ StoreOff
    /\ fn_in \in { [highlight |-> t] : t \in HighlightTexts }
    /\ fn_out = <<>>
    /\ fn_pc = "highlight"

\* targeted.append(f'On your resume you mention: "{_truncate(highlight)}". ...')
QuoteHighlight ==
    /\ fn_pc = "highlight"
    /\ fn_out' = HighlightQuestion(_truncate(fn_in.highlight, TruncateMaxLen))
    /\ fn_pc' = "quoted"
    /\ UNCHANGED fn_in
    /\ UNCHANGED sessionVars
    /\ UNCHANGED planVars
    /\ UNCHANGED storeVars

HighlightNext == QuoteHighlight

HighlightSpec == HighlightInit /\ [][HighlightNext]_vars

(***************************************************************************)
(* Properties of the quoted snippet (specification HighlightSpec).         *)
(***************************************************************************)
Quoted == fn_pc = "quoted"

\* the highlight with every run of blanks replaced by one space
Compacted(text) == join_space(split(text))

\* C21: the quoted snippet has at most 140 characters; a highlight whose
\* compacted text is longer is cut and ends with the suffix, and a highlight
\* of at most 140 compacted characters is quoted as its compacted text
C21_SnippetAtMost140 ==
    Quoted =>
        /\ Len(fn_out.arg) <= 140
        /\ Len(Compacted(fn_in.highlight)) > 140 =>
               /\ Len(fn_out.arg) > Len(TruncateSuffix)
               /\ SubSeq(fn_out.arg, Len(fn_out.arg) - Len(TruncateSuffix) + 1, Len(fn_out.arg))
                      = TruncateSuffix
               /\ \A k \in 1..(Len(fn_out.arg) - Len(TruncateSuffix)) :
                      fn_out.arg[k] = Compacted(fn_in.highlight)[k]
        /\ Len(Compacted(fn_in.highlight)) <= 140 => fn_out.arg = Compacted(fn_in.highlight)

(***************************************************************************)
(* Specification of the experience and education component scores         *)
(* (scorer.py, _score_experience_match and _score_education_match) on the  *)
(* requirement and resume records the extractors produce.                  *)
(***************************************************************************)
MaxRequiredYears == 4    \* required years of experience: 0..MaxRequiredYears
MaxResumeMonths == 48    \* months of experience summed from the resume
MaxDegrees == 1          \* degrees listed by the resume

RequiredLevelLists ==
    { <<>>, <<<<"s", "e", "n", "i", "o", "r">>>>, <<<<"l", "e", "a", "d">>>>, <<<<"s", "e", "n", "i", "o", "r">>, <<"l", "e", "a", "d">>>> }

JobTitleLists ==
    { <<>>, <<<<"S", "e", "n", "i", "o", "r", " ", "E", "n", "g", "i", "n", "e", "e", "r">>>>, <<<<"L", "e", "a", "d">>>>, <<<<"S", "e", "n", "i", "o", "r", " ", "E", "n", "g", "i", "n", "e", "e", "r">>, <<"T", "e", "c", "h", " ", "L", "e", "a", "d">>>> }

ExperienceInputs ==
    { [jd_requirements |-> [years |-> r, levels |-> l],
       resume_experience |-> [total_years_estimated |-> RoundedYears(m), job_titles |-> t]] :
          r \in 0..MaxRequiredYears, l \in RequiredLevelLists,
          m \in 0..MaxResumeMonths, t \in JobTitleLists }

RequiredEducationLevels == {None, Some("doctorate"), Some("master"), Some("bachelor"), Some("associate")}

RequiredFieldLists ==
    { <<>>, <<<<"c", "o", "m", "p", "u", "t", "e", "r", " ", "s", "c", "i", "e", "n", "c", "e">>>>, <<<<"s", "t", "a", "t", "i", "s", "t", "i", "c", "s">>>>, <<<<"m", "a", "t", "h", "e", "m", "a", "t", "i", "c", "s">>, <<"s", "t", "a", "t", "i", "s", "t", "i", "c", "s">>>>, <<<<"b", "u", "s", "i", "n", "e", "s", "s">>>> }

DegreeTexts ==
    { <<"P", "h", "D", " ", "P", "h", "y", "s", "i", "c", "s">>,
      <<"M", "a", "s", "t", "e", "r", " ", "o", "f", " ", "S", "c", "i", "e", "n", "c", "e", " ", "i", "n", " ", "S", "t", "a", "t", "i", "s", "t", "i", "c", "s">>,
      <<"B", "a", "c", "h", "e", "l", "o", "r", " ", "o", "f", " ", "A", "r", "t", "s", " ", "i", "n", " ", "E", "c", "o", "n", "o", "m", "i", "c", "s">>,
      <<"a", "s", "s", "o", "c", "i", "a", "t", "e", " ", "i", "n", " ", "b", "u", "s", "i", "n", "e", "s", "s">>,
      <<"d", "i", "p", "l", "o", "m", "a", ":", " ", "s", "t", "a", "t", "i", "s", "t", "i", "c", "s">>,
      <<"B", "S", "c", " ", "M", "a", "t", "h", "e", "m", "a", "t", "i", "c", "s">> }

DegreeLists == TuplesUpTo(DegreeTexts, MaxDegrees)

EducationInputs ==
    { [jd_requirements |-> [level |-> l, fields |-> f],
       resume_education |-> [degrees |-> d, education_level |-> _determine_education_level(d)]] :
          l \in RequiredEducationLevels, f \in RequiredFieldLists, d \in DegreeLists }

ScoreInit ==
    /\ EngineIdle
    /\ PlannerOff
    /\ StoreOff
    /\ \/ fn_pc = "experience" /\ fn_in \in ExperienceInputs
       \/ fn_pc = "education" /\ fn_in \in EducationInputs
    /\ fn_out = <<>>

\* experience_match = _score_experience_match(jd_requirements["experience"], resume_experience)
ScoreExperience ==
    /\ fn_pc = "experience"
    /\ fn_out' = _score_experience_match(fn_in.jd_requirements, fn_in.resume_experience)
    /\ fn_pc' = "experience_scored"
    /\ UNCHANGED fn_in
    /\ UNCHANGED sessionVars
    /\ UNCHANGED planVars
    /\ UNCHANGED storeVars

\* education_match = _score_education_match(jd_requirements["education"], resume_education)
ScoreEducation ==
    /\ fn_pc = "education"
    /\ fn_out' = _score_education_match(fn_in.jd_requirements, fn_in.resume_education)
    /\ fn_pc' = "education_scored"
    /\ UNCHANGED fn_in
    /\ UNCHANGED sessionVars
    /\ UNCHANGED planVars
    /\ UNCHANGED storeVars

ScoreNext == ScoreExperience \/ ScoreEducation

ScoreSpec == ScoreInit /\ [][ScoreNext]_vars

(***************************************************************************)
(* Properties of the component scores (specification ScoreSpec).           *)
(***************************************************************************)
ExperienceScored == fn_pc = "experience_scored"
EducationScored == fn_pc = "education_scored"

\* hundredths of the experience score for the years alone: resume years
\* y (a rational) against required years r
YearsHundredths(r, y) ==
    IF r > 0
    THEN IF y.num >= r * y.den THEN 100
         ELSE IF 4 * y.num >= 3 * r * y.den THEN 75
         ELSE IF 2 * y.num >= r * y.den THEN 50
         ELSE IF y.num > 0 THEN 25
         ELSE 0
    ELSE IF y.num > 0 THEN 50 ELSE 0

\* a required seniority keyword occurs in the lowercased job titles
SeniorityNamed(levels, titles) ==
    \E k \in 1..Len(levels) : Contains(lower(join_space(titles)), levels[k])

\* C22: the experience score is the bucket of the resume years against the
\* required years (1, 0.75, 0.5, 0.25 or 0; without required years 0.5 or
\* 0), plus 0.2 once when a required seniority keyword occurs in the job
\* titles, capped at 1, and lies in [0, 1]
C22_ExperienceScore ==
    ExperienceScored =>
        /\ fn_out = Rat(Min(100, YearsHundredths(fn_in.jd_requirements.years,
                                                 fn_in.resume_experience.total_years_estimated)
                                 + (IF SeniorityNamed(fn_in.jd_requirements.levels,
                                                      fn_in.resume_experience.job_titles)
                                    THEN 20 ELSE 0)), 100)
        /\ RLe(Zero, fn_out)
        /\ RLe(fn_out, One)

\* resume years at exactly three quarters of the required years, with two
\* required seniority keywords both named in the job titles: 0.75 + 0.2
C22_Witness ==
    /\ ExperienceScored
    /\ fn_in.jd_requirements.years = 4
    /\ fn_in.resume_experience.total_years_estimated = Rat(3, 1)
    /\ Len(fn_in.jd_requirements.levels) = 2
    /\ Len(fn_in.resume_experience.job_titles) = 2
    /\ fn_out = Rat(95, 100)

\* the ordinal of the education levels
LevelOrder == <<"unknown", "diploma", "associate", "bachelor", "master", "doctorate">>
Ordinal(level) == CHOOSE k \in 1..Len(LevelOrder) : LevelOrder[k] = level

\* hundredths of the education score for the level alone
LevelHundredths(required, level) ==
    IF required # None
    THEN IF Ordinal(level) >= Ordinal(required[1]) THEN 100
         ELSE IF Ordinal(level) = Ordinal(required[1]) - 1 THEN 50
         ELSE 0
    ELSE IF level \in {"bachelor", "master", "doctorate"} THEN 50
    ELSE IF level \in {"associate", "diploma"} THEN 30
    ELSE 0

\* a required field of study is a substring of the lowercased degree text
FieldNamed(fields, degrees) ==
    \E k \in 1..Len(fields) : Contains(lower(join_space(degrees)), fields[k])

\* C23: the education score is 1 at or above the required level, 0.5 exactly
\* one level below, else 0; without a required level 0.5 for bachelor,
\* master and doctorate, 0.3 for associate and diploma, 0 for unknown; plus
\* 0.3 once when a required field of study occurs in the degree text,
\* capped at 1
C23_EducationScore ==
    EducationScored =>
        fn_out = Rat(Min(100, LevelHundredths(fn_in.jd_requirements.level,
                                              fn_in.resume_education.education_level)
                              + (IF FieldNamed(fn_in.jd_requirements.fields,
                                               fn_in.resume_education.degrees)
                                 THEN 30 ELSE 0)), 100)

\* a master's degree against a required doctorate, with the second of two
\* required fields named in the degree: 0.5 + 0.3
C23_Witness ==
    /\ EducationScored
    /\ fn_in.jd_requirements.level = Some("doctorate")
    /\ fn_in.resume_education.education_level = "master"
    /\ Len(fn_in.jd_requirements.fields) = 2
    /\ FieldNamed(fn_in.jd_requirements.fields, fn_in.resume_education.degrees)
    /\ fn_out = Rat(80, 100)

(***************************************************************************)
(* Ranges of the evaluation scores (specification EvalSpec).               *)
(***************************************************************************)
InUnit(x) == RLe(Zero, x) /\ RLe(x, One)

\* 0.50 * relevance + 0.30 * depth + 0.20 * clarity
WeightedScore(relevance, clarity, depth) ==
    Rat(50 * relevance.num * depth.den * clarity.den
        + 30 * depth.num * relevance.den * clarity.den
        + 20 * clarity.num * relevance.den * depth.den,
        100 * relevance.den * depth.den * clarity.den)

\* the evaluation e reports the scores relevance, clarity and depth
ReportsScores(e, relevance, clarity, depth) ==
    /\ InUnit(e.relevance_score)
    /\ InUnit(e.clarity_score)
    /\ InUnit(e.depth_score)
    /\ e.relevance_score \in round(relevance, 3)
    /\ e.clarity_score \in round(clarity, 3)
    /\ e.depth_score \in round(depth, 3)
    /\ e.overall_score \in round(WeightedScore(relevance, clarity, depth), 3)
    /\ InUnit(e.overall_score)
    /\ e.overall_score_percent \in int(RMul(WeightedScore(relevance, clarity, depth), Rat(100, 1)))
    /\ e.overall_score_percent \in 0..100

MaxSkillPieces == 2   \* extracted texts: at most this many pieces

SkillPieces ==
    { <<"P", "y", "t", "h", "o", "n", " ", "3", ".", "8">>,
      <<"p", "y", "t", "h", "o", "n", " ", "3">>,
      <<" ">>,
      <<"A", "W", "S", " ", " ", "C", "e", "r", "t", "i", "f", "i", "e", "d">>,
      <<"s", "c", "r", "u", "m", " ", "m", "a", "s", "t", "e", "r">>,
      <<"p", "m", "p">>,
      <<"j", "a", "v", "a">> }

SkillTexts == TextsOf(SkillPieces, MaxSkillPieces)

SkillInit ==
    /\ EngineIdle
    /\ PlannerOff
    /\ StoreOff
    /\ fn_in \in [text : SkillTexts]
    /\ fn_out = None
    /\ fn_pc = "extract"

\* extract_skills(text)
ExtractSkills ==
    /\ fn_pc = "extract"
    /\ fn_out' = Some(extract_skills(fn_in.text))
    /\ fn_pc' = "extracted"
    /\ UNCHANGED fn_in
    /\ UNCHANGED sessionVars
    /\ UNCHANGED planVars
    /\ UNCHANGED storeVars

SkillNext == ExtractSkills

SkillSpec == SkillInit /\ [][SkillNext]_vars

(***************************************************************************)
(* Properties of the skill extractor (specification SkillSpec).            *)
(***************************************************************************)
Extracted == fn_pc = "extracted"

\* e is the whole text of one match of an element of _SKILL_PATTERNS
IsMention(e) ==
    /\ e # <<>>
    /\ \E k \in 1..Len(_SKILL_PATTERNS) :
          PatternMatchAt(e, 1, _SKILL_PATTERNS[k], 1).end = Len(e) + 1

\* e occurs in text
OccursIn(e, text) == \E i \in 1..(Len(text) - Len(e) + 1) : MatchAt(text, i, e)

\* the empty string, or what the group (\.\d+) holds
VersionFragment(e) == e = <<>> \/ e[1] = "."

\* the entries of the technical list that follow the keyword matches
PatternEntries(text, technical) ==
    SubSeq(technical, Len(_extract_keyword_skills(text, _COMMON_TECH_SKILLS)) + 1, Len(technical))

\* C25: every entry the pattern pass adds to the technical list is the
\* lowercased full text of a skill+version or certification mention that
\* occurs in the input, it follows the keyword matches and is not one of
\* them, and the technical list holds no empty string and no bare version
\* fragment
C25_PatternEntries ==
    Extracted =>
        LET technical == fn_out[1].technical
            keywords == _extract_keyword_skills(fn_in.text, _COMMON_TECH_SKILLS)
            added == PatternEntries(fn_in.text, technical)
        IN  /\ SubSeq(technical, 1, Len(keywords)) = keywords
            /\ \A i \in 1..Len(added) :
                  /\ IsMention(added[i])
                  /\ OccursIn(added[i], lower(fn_in.text))
                  /\ added[i] \notin Range(keywords)
                  /\ \A j \in 1..Len(added) : added[j] = added[i] => j = i
            /\ \A i \in 1..Len(technical) : ~ VersionFragment(technical[i])

(***************************************************************************)
(* Invariants of the session (specification Spec).                         *)
(***************************************************************************)
\* turn i (counted from 0) holds a stored answer exactly when i is below
\* the pointer, which stays within 0..turn count
TurnPointerInvariant ==
    Running =>
        /\ 0 <= state.next_turn_index
        /\ state.next_turn_index <= Len(state.turns)
        /\ \A i \in 0..(Len(state.turns) - 1) :
              (state.turns[i + 1].answer # None) <=> (i < state.next_turn_index)

\* a call on a session keeps its turns, their questions and every answer
\* that is already stored
StoredAnswersKept ==
    Running =>
        /\ Len(state'.turns) = Len(state.turns)
        /\ \A k \in 1..Len(state.turns) :
              /\ state'.turns[k].question = state.turns[k].question
              /\ state.turns[k].answer # None => state'.turns[k].answer = state.turns[k].answer

\* C26: in every state reached from start by answer / submit_answer and
\* next_question calls, failed calls included, 0 <= next_turn_index <= turn
\* count and turn i holds a stored answer if and only if i < next_turn_index;
\* answers are filled in question order, none is skipped, none is overwritten
C26_AnswersFilledInOrder ==
    /\ [] TurnPointerInvariant
    /\ [][StoredAnswersKept]_vars

\* two answers, one of them the empty text, stored in the first two of four
\* turns of a session, read back by next_question
C26_Witness ==
    /\ Running
    /\ Len(state.turns) = 4
    /\ state.next_turn_index = 2
    /\ state.turns[1].answer = Some("")
    /\ state.turns[2].answer = Some("a1")
    /\ state.turns[3].answer = None
    /\ state.turns[4].answer = None
    /\ result.op = "next_question"

\* C27: in every state reached from start with any max_questions, the
\* status is completed if and only if next_turn_index equals the turn count,
\* ended_at is set if and only if the status is completed, and next_question
\* returns null only for a completed session
C27_CompletedIffAllAnswered ==
    Running =>
        /\ (state.status = "completed") <=> (state.next_turn_index = Len(state.turns))
        /\ (state.ended_at # None) <=> (state.status = "completed")
        /\ next_question(state) = None => state.status = "completed"

(***************************************************************************)
(* Database-backed interview service (services/interview_service.py,       *)
(* persistence/repositories/interview_repo.py, persistence/tables.py).     *)
(* db is a record of tables, a table is the sequence of its rows in        *)
(* insertion order.  Every repository operation commits.                   *)
(***************************************************************************)
\* the str a question of _build_plan_from_job_only is
JobIntroText ==
    <<"B", "r", "i", "e", "f", "l", "y", " ", "i", "n", "t", "r", "o", "d", "u", "c", "e", " ", "y", "o", "u", "r", "s", "e", "l", "f", " ", "a", "n", "d", " ", "s", "u", "m", "m", "a", "r", "i", "z", "e", " ", "y", "o", "u", "r", " ", "r", "e", "l", "e", "v", "a", "n", "t", " ", "e", "x", "p", "e", "r", "i", "e", "n", "c", "e", ".">>
JobKeywordPrefix ==
    <<"T", "e", "l", "l", " ", "m", "e", " ", "a", "b", "o", "u", "t", " ", "a", " ", "p", "r", "o", "j", "e", "c", "t", " ", "w", "h", "e", "r", "e", " ", "y", "o", "u", " ", "u", "s", "e", "d", " ">>
JobChallengeText ==
    <<"D", "e", "s", "c", "r", "i", "b", "e", " ", "a", " ", "c", "h", "a", "l", "l", "e", "n", "g", "i", "n", "g", " ", "p", "r", "o", "b", "l", "e", "m", " ", "y", "o", "u", " ", "s", "o", "l", "v", "e", "d", " ", "a", "n", "d", " ", "h", "o", "w", " ", "y", "o", "u", " ", "a", "p", "p", "r", "o", "a", "c", "h", "e", "d", " ", "i", "t", ".">>
JobClosingText ==
    <<"D", "o", " ", "y", "o", "u", " ", "h", "a", "v", "e", " ", "a", "n", "y", " ", "q", "u", "e", "s", "t", "i", "o", "n", "s", " ", "f", "o", "r", " ", "u", "s", "?">>

QuestionText(q) ==
    CASE q.template = JobIntro.template -> JobIntroText
      [] q.template = JobKeywordQuestion(<<>>).template -> JobKeywordPrefix \o q.arg \o <<".">>
      [] q.template = JobChallenge.template -> JobChallengeText
      [] q.template = JobClosing.template -> JobClosingText

\* build_interview_plan(job.description): no resume, max_questions = 6
DefaultMaxQuestions == 6
QuestionTexts(questions) == [k \in 1..Len(questions) |-> QuestionText(questions[k])]
ServicePlan(description) ==
    QuestionTexts(build_interview_plan(description, None, DefaultMaxQuestions))

\* the first question of a session with an empty plan
IntroduceYourself ==
    <<"I", "n", "t", "r", "o", "d", "u", "c", "e", " ", "y", "o", "u", "r", "s", "e", "l", "f", ".">>

\* InterviewSession(job_id=..., candidate_id=..., plan_json=...) with the
\* column defaults of tables.py
InterviewSessionRow(id, job_id, candidate_id, plan_json) ==
    [id |-> id, job_id |-> job_id, candidate_id |-> candidate_id, status |-> "active",
     plan_json |-> plan_json, next_question_index |-> 0, ended_at |-> None]

InterviewMessageRow(session_id, role, content) ==
    [session_id |-> session_id, role |-> role, content |-> content]

\* InterviewRepository.create_session
create_session(d, id, job_id, candidate_id, plan_json) ==
    [d EXCEPT !.interview_sessions =
                  Append(@, InterviewSessionRow(id, job_id, candidate_id, plan_json))]

\* InterviewRepository.get_session: Optional row
get_session(d, session_id) ==
    LET found == { k \in 1..Len(d.interview_sessions) : d.interview_sessions[k].id = session_id }
    IN  IF found = {} THEN None ELSE Some(d.interview_sessions[CHOOSE k \in found : TRUE])

\* InterviewRepository.update_next_question_index
update_next_question_index(d, session_id, next_index) ==
    [d EXCEPT !.interview_sessions =
                  [k \in 1..Len(@) |->
                      IF @[k].id = session_id
                      THEN [@[k] EXCEPT !.next_question_index = next_index]
                      ELSE @[k]]]

\* InterviewRepository.add_message
add_message(d, session_id, role, content) ==
    [d EXCEPT !.interview_messages = Append(@, InterviewMessageRow(session_id, role, content))]

\* InterviewRepository.complete_session
complete_session(d, session_id, ended_at) ==
    [d EXCEPT !.interview_sessions =
                  [k \in 1..Len(@) |->
                      IF @[k].id = session_id
                      THEN [@[k] EXCEPT !.status = "completed", !.ended_at = Some(ended_at)]
                      ELSE @[k]]]

\* the dict a service call returns
Response(session_id, status, question) ==
    [session_id |-> session_id, status |-> status, question |-> question]

\* lines 32-43 of start_session: the first question is posted and the
\* index set to 1
StartPosting(created, id, first_question) ==
    [db |-> update_next_question_index(add_message(created, id, "interviewer", first_question),
                                       id, 1),
     response |-> Response(id, "active", Some(first_question))]

\* lines 25-31 of start_session
StartWithPlan(d, job_id, candidate_id, id, service_plan) ==
    StartPosting(create_session(d, id, job_id, candidate_id, plan_to_json(service_plan)),
                 id,
                 IF service_plan # <<>> THEN service_plan[1] ELSE IntroduceYourself)

\* InterviewService.start_session on a job that exists: the database
\* afterwards and the returned dict; id is the primary key of the new row
start_session(d, job, candidate_id, id) ==
    StartWithPlan(d, job.id, candidate_id, id, ServicePlan(job.description))

\* lines 74-86 of post_candidate_message
PostNextQuestion(stored, id, next_q, idx) ==
    [db |-> update_next_question_index(add_message(stored, id, "interviewer", next_q),
                                       id, idx + 1),
     response |-> Response(id, "active", Some(next_q))]

\* mutant of PostReply: the session is completed by the answer to the
\* question before the last
PostReply_early(stored, id, stored_plan, idx, now) ==
    IF idx + 1 >= Len(stored_plan)
    THEN [db |-> complete_session(stored, id, now),
          response |-> Response(id, "completed", None)]
    ELSE PostNextQuestion(stored, id, stored_plan[idx + 1], idx)

\* lines 60-86 of post_candidate_message: stored is the database with the
\* candidate message added
PostReply(stored, id, stored_plan, idx, now) ==
    IF idx >= Len(stored_plan)
    THEN [db |-> complete_session(stored, id, now),
          response |-> Response(id, "completed", None)]
    ELSE PostNextQuestion(stored, id, stored_plan[idx + 1], idx)

\* lines 47-61 of post_candidate_message
PostOnRow(d, session_row, content, now) ==
    IF session_row.status # "active"
    THEN [db |-> d, response |-> Response(session_row.id, session_row.status, None)]
    ELSE PostReply(add_message(d, session_row.id, "candidate", content),
                   session_row.id,
                   plan_from_json(session_row.plan_json).value,
                   session_row.next_question_index,
                   now)

\* InterviewService.post_candidate_message on a session that exists, run
\* from its first line to its return with no other request in between
post_candidate_message(d, session_id, content, now) ==
    PostOnRow(d, get_session(d, session_id)[1], content, now)

(***************************************************************************)
(* Specification of the interview service, one request at a time: one job, *)
(* one session, start_session and then post_candidate_message calls.       *)
(***************************************************************************)
MaxServiceJobPieces == 1   \* job descriptions of the service: at most this many pieces
MaxPosts == 5              \* post_candidate_message calls on the session

ServiceJobPieces == { <<"A", "W", "S", " ">>, <<"s", "q", "l", " ">> }
ServiceJobTexts == TextsOf(ServiceJobPieces, MaxServiceJobPieces)

\* message texts of the candidate
Contents == { <<"h", "i">>, <<"o", "k">> }

\* the database with one job and no session
JobOnlyDatabase(description) ==
    [jobs |-> << [id |-> "job-1", description |-> description] >>,
     candidates |-> <<>>,
     applications |-> <<>>,
     interview_sessions |-> <<>>,
     interview_messages |-> <<>>]

\* the frame of a request that has returned
Returned_(op, content, response) ==
    [op |-> op, pc |-> "done", content |-> content, session_row |-> None,
     stored_plan |-> <<>>, idx |-> 0, response |-> Some(response)]

FnOff ==
    /\ fn_in = <<>>
    /\ fn_out = <<>>
    /\ fn_pc = "off"

ServiceInit ==
    /\ EngineIdle
    /\ PlannerOff
    /\ FnOff
    /\ db \in { JobOnlyDatabase(d) : d \in ServiceJobTexts }
    /\ calls = <<>>

Posts == { r \in 1..Len(calls) : calls[r].op = "post_candidate_message" }

\* service.start_session(job_id="job-1", candidate_id="candidate-1")
StartSession ==
    /\ db.interview_sessions = <<>>
    /\ \E outcome \in { start_session(db, db.jobs[1], "candidate-1", "session-1") } :
          /\ db' = outcome.db
          /\ calls' = Append(calls, Returned_("start_session", <<>>, outcome.response))
    /\ UNCHANGED sessionVars
    /\ UNCHANGED planVars
    /\ UNCHANGED fnVars

\* service.post_candidate_message(session_id="session-1", content=c)
PostCandidateMessage ==
    /\ db.interview_sessions # <<>>
    /\ Cardinality(Posts) < MaxPosts
    /\ \E c \in Contents, now \in Times :
          \E outcome \in { post_candidate_message(db, "session-1", c, now) } :
              /\ db' = outcome.db
              /\ calls' = Append(calls, Returned_("post_candidate_message", c, outcome.response))
    /\ UNCHANGED sessionVars
    /\ UNCHANGED planVars
    /\ UNCHANGED fnVars

ServiceNext == StartSession \/ PostCandidateMessage

ServiceSpec == ServiceInit /\ [][ServiceNext]_vars

(***************************************************************************)
(* Properties of the interview service (specification ServiceSpec).        *)
(***************************************************************************)
SessionStarted == db # <<>> /\ db.interview_sessions # <<>>

\* the plan stored with the session
StoredPlan == plan_from_json(db.interview_sessions[1].plan_json).value

\* the contents of the stored messages of one role, in insertion order
RECURSIVE ContentsOf(_, _)
ContentsOf(messages, role) ==
    IF messages = <<>> THEN <<>>
    ELSE (IF Head(messages).role = role THEN <<Head(messages).content>> ELSE <<>>)
         \o ContentsOf(Tail(messages), role)

InterviewerMessages == ContentsOf(db.interview_messages, "interviewer")
CandidateMessages == ContentsOf(db.interview_messages, "candidate")

\* the post_candidate_message calls made so far, in call order
PostCalls == SelectSeq(calls, LAMBDA f : f.op = "post_candidate_message")

Least(a, b) == IF a <= b THEN a ELSE b

\* C28: under sequential calls on one session whose stored plan has n >= 1
\* questions, start_session posts plan[0]; the k-th candidate message
\* (1 <= k < n) is stored and answered with plan[k]; the n-th candidate
\* message completes the session (status completed, ended_at set, question
\* null); the interviewer messages are exactly plan[0], ..., plan[n-1] in plan
\* order, each once; the session is not completed before n candidate messages
\* are stored
C28_SequentialInterview ==
    (SessionStarted /\ Len(StoredPlan) >= 1) =>
        LET n == Len(StoredPlan)
            session_row == db.interview_sessions[1]
            stored == Least(Len(PostCalls), n)
        IN  /\ calls[1].op = "start_session"
            /\ calls[1].response[1].question = Some(StoredPlan[1])
            /\ \A k \in 1..Len(PostCalls) :
                  /\ k < n => /\ PostCalls[k].response[1].status = "active"
                              /\ PostCalls[k].response[1].question = Some(StoredPlan[k + 1])
                  /\ k >= n => /\ PostCalls[k].response[1].status = "completed"
                               /\ PostCalls[k].response[1].question = None
            /\ CandidateMessages = [k \in 1..stored |-> PostCalls[k].content]
            /\ InterviewerMessages = SliceTo(StoredPlan, Least(Len(PostCalls) + 1, n))
            /\ \A i, j \in 1..n : StoredPlan[i] = StoredPlan[j] => i = j
            /\ (session_row.status = "completed") <=> (Len(CandidateMessages) = n)
            /\ (session_row.ended_at # None) <=> (session_row.status = "completed")
            /\ Len(CandidateMessages) < n => session_row.status = "active"

\* a plan of four questions answered by four candidate messages, and a
\* fifth message that is not stored
C28_Witness ==
    /\ SessionStarted
    /\ Len(StoredPlan) = 4
    /\ Len(PostCalls) = 5
    /\ Len(CandidateMessages) = 4
    /\ InterviewerMessages = StoredPlan
    /\ db.interview_sessions[1].status = "completed"
    /\ db.interview_sessions[1].ended_at # None
    /\ PostCalls[3].response[1].question = Some(StoredPlan[4])
    /\ PostCalls[4].response[1] = Response("session-1", "completed", None)

(***************************************************************************)
(* Specification of the interview service with interleaved requests: each  *)
(* post_candidate_message request runs in its own ORM session, and one     *)
(* step is one repository operation (one committed statement).  Commits    *)
(* expire the loaded row (expire_on_commit is left at its default), so the *)
(* attribute accesses of lines 60-61 read the row again.                   *)
(***************************************************************************)
\* the slots of requests that run at the same time: two requests interleave
RequestSlots == {"first", "second"}
MaxRacePosts == 3    \* post_candidate_message requests on the session

\* the frame of a post_candidate_message request at step pc
Frame(pc, content, session_row, stored_plan, idx, response) ==
    [op |-> "post_candidate_message", pc |-> pc, content |-> content,
     session_row |-> session_row, stored_plan |-> stored_plan, idx |-> idx,
     response |-> response]

InFlight == { r \in 1..Len(calls) : calls[r].pc # "done" }

RaceInit == ServiceInit

\* lines 46-52: a request arrives and reads the session row
GetSessionRequired ==
    /\ db.interview_sessions # <<>>
    /\ Cardinality(InFlight) < Cardinality(RequestSlots)
    /\ Cardinality(Posts) < MaxRacePosts
    /\ \E c \in Contents, session_row \in { get_session(db, "session-1")[1] } :
              calls' = Append(calls,
                  IF session_row.status # "active"
                  THEN Frame("done", c, Some(session_row), <<>>, 0,
                             Some(Response(session_row.id, session_row.status, None)))
                  ELSE Frame("add_candidate", c, Some(session_row), <<>>, 0, None))
    /\ UNCHANGED db
    /\ UNCHANGED sessionVars
    /\ UNCHANGED planVars
    /\ UNCHANGED fnVars

\* lines 54-58: the candidate message is stored; the commit expires the row
AddCandidateMessage ==
    /\ \E r \in 1..Len(calls) :
          /\ calls[r].pc = "add_candidate"
          /\ db' = add_message(db, calls[r].session_row[1].id, "candidate", calls[r].content)
          /\ calls' = [calls EXCEPT ![r].pc = "read_plan", ![r].session_row = None]
    /\ UNCHANGED sessionVars
    /\ UNCHANGED planVars
    /\ UNCHANGED fnVars

\* lines 60-63: plan_json and next_question_index are read from the row
ReadPlan ==
    /\ \E r \in 1..Len(calls) :
          /\ calls[r].pc = "read_plan"
          /\ \E session_row \in { get_session(db, "session-1")[1] } :
                \E stored_plan \in { plan_from_json(session_row.plan_json).value } :
                   calls' = [calls EXCEPT ![r].session_row = Some(session_row),
                                          ![r].stored_plan = stored_plan,
                                          ![r].idx = session_row.next_question_index,
                                          ![r].pc = IF session_row.next_question_index >= Len(stored_plan)
                                                    THEN "complete"
                                                    ELSE "add_interviewer"]
    /\ UNCHANGED db
    /\ UNCHANGED sessionVars
    /\ UNCHANGED planVars
    /\ UNCHANGED fnVars

\* lines 64-72: the session is completed and the request returns
CompleteSession ==
    /\ \E r \in 1..Len(calls), now \in Times :
          /\ calls[r].pc = "complete"
          /\ db' = complete_session(db, calls[r].session_row[1].id, now)
          /\ calls' = [calls EXCEPT ![r].pc = "done", ![r].session_row = None,
                                    ![r].response =
                                        Some(Response(calls[r].session_row[1].id, "completed", None))]
    /\ UNCHANGED sessionVars
    /\ UNCHANGED planVars
    /\ UNCHANGED fnVars

\* lines 74-79: the next question is stored as an interviewer message
AddInterviewerMessage ==
    /\ \E r \in 1..Len(calls) :
          /\ calls[r].pc = "add_interviewer"
          /\ db' = add_message(db, calls[r].session_row[1].id, "interviewer",
                               calls[r].stored_plan[calls[r].idx + 1])
          /\ calls' = [calls EXCEPT ![r].pc = "update_index"]
    /\ UNCHANGED sessionVars
    /\ UNCHANGED planVars
    /\ UNCHANGED fnVars

\* lines 80-86: idx + 1 is stored and the request returns
UpdateNextQuestionIndex ==
    /\ \E r \in 1..Len(calls) :
          /\ calls[r].pc = "update_index"
          /\ db' = update_next_question_index(db, calls[r].session_row[1].id, calls[r].idx + 1)
          /\ calls' = [calls EXCEPT ![r].pc = "done", ![r].session_row = None,
                                    ![r].response =
                                        Some(Response(calls[r].session_row[1].id, "active",
                                                      Some(calls[r].stored_plan[calls[r].idx + 1])))]
    /\ UNCHANGED sessionVars
    /\ UNCHANGED planVars
    /\ UNCHANGED fnVars

RaceNext ==
    \/ StartSession
    \/ GetSessionRequired
    \/ AddCandidateMessage
    \/ ReadPlan
    \/ CompleteSession
    \/ AddInterviewerMessage
    \/ UpdateNextQuestionIndex

RaceSpec == RaceInit /\ [][RaceNext]_vars

(***************************************************************************)
(* Properties of interleaved requests (specification RaceSpec).            *)
(***************************************************************************)
\* how many interviewer messages carry the question q
TimesPosted(q) ==
    Cardinality({ k \in 1..Len(InterviewerMessages) : InterviewerMessages[k] = q })

\* C29: when post_candidate_message requests for the same active session
\* interleave at the granularity of the repository operations, every plan
\* question is posted as an interviewer message at most once, no plan
\* question is skipped, and, once the requests have returned,
\* next_question_index has advanced by exactly one per stored candidate
\* message (up to the length of the plan)
C29_InterleavedPosts ==
    SessionStarted =>
        LET n == Len(StoredPlan)
        IN  /\ \A i \in 1..n : TimesPosted(StoredPlan[i]) <= 1
            /\ \A i, j \in 1..n :
                  (i < j /\ TimesPosted(StoredPlan[j]) >= 1) => TimesPosted(StoredPlan[i]) >= 1
            /\ InFlight = {} =>
                  db.interview_sessions[1].next_question_index
                      = Least(1 + Len(CandidateMessages), n)

(***************************************************************************)
(* Screening service (services/screening_service.py,                       *)
(* persistence/repositories/application_repo.py, domain/policies/          *)
(* shortlisting.py).  Primary keys are uuid4 strings in the source; the    *)
(* model numbers the rows of a table in insertion order.                   *)
(***************************************************************************)
RationaleTopN == 8

LowOverlapText ==
    <<"L", "o", "w", " ", "k", "e", "y", "w", "o", "r", "d", " ", "o", "v", "e", "r", "l", "a", "p", " ", "b", "e", "t", "w", "e", "e", "n", " ", "r", "e", "s", "u", "m", "e", " ", "a", "n", "d", " ", "j", "o", "b", " ", "d", "e", "s", "c", "r", "i", "p", "t", "i", "o", "n", ".">>
MatchedTermsPrefix ==
    <<"M", "a", "t", "c", "h", "e", "d", " ", "t", "e", "r", "m", "s", ":", " ">>

TermsOf(ranked) == [k \in 1..Len(ranked) |-> ranked[k].term]

\* [t for t, _ in counts.most_common() if t in cv_tokens]
OverlapTerms(ranked, cv_tokens) ==
    SelectSeq(ranked, LAMBDA x : x.term \in cv_tokens)

top_overlap_terms(jd, resume, top_n) ==
    SliceTo(TermsOf(OverlapTerms(most_common(tokenize(jd), Len(jd)), Range(tokenize(resume)))),
            top_n)

RationaleOf(terms) ==
    IF terms = <<>> THEN LowOverlapText
    ELSE MatchedTermsPrefix \o JoinWith(<<",", " ">>, terms)

rationale(jd, resume) == RationaleOf(top_overlap_terms(jd, resume, RationaleTopN))

\* Application(job_id=..., candidate_id=..., score=..., rationale=...) with
\* the column defaults of tables.py
ApplicationRow(id, job_id, candidate_id, score, why) ==
    [id |-> id, job_id |-> job_id, candidate_id |-> candidate_id, status |-> "pending",
     score |-> score, rationale |-> why]

\* the positions of the rows select(Application).where(job_id == ...,
\* candidate_id == ...) finds
ExistingApplications(d, job_id, candidate_id) ==
    { k \in 1..Len(d.applications) :
         /\ d.applications[k].job_id = job_id
         /\ d.applications[k].candidate_id = candidate_id }

\* the least element of a non-empty set of positions: .first()
First(S) == CHOOSE k \in S : \A j \in S : k <= j

\* mutant of upsert: a row is added whether or not the pair has one
upsert_always_adds(d, job_id, candidate_id, score, why) ==
    Append(d.applications,
           ApplicationRow(Len(d.applications) + 1, job_id, candidate_id, score, why))

\* ApplicationRepository.upsert: the applications table afterwards
upsert(d, job_id, candidate_id, score, why) ==
    IF ExistingApplications(d, job_id, candidate_id) = {}
    THEN Append(d.applications,
                ApplicationRow(Len(d.applications) + 1, job_id, candidate_id, score, why))
    ELSE [d.applications EXCEPT
             ![First(ExistingApplications(d, job_id, candidate_id))] =
                 [@ EXCEPT !.score = score, !.rationale = why]]

\* the row upsert returns, read back after the commit
Upserted(d, job_id, candidate_id) ==
    d.applications[First(ExistingApplications(d, job_id, candidate_id))]

\* lines 33-42: the dict appended for candidate c
ScreeningResult(app, c, job, score, why) ==
    [application_id |-> app.id, candidate_id |-> c.id, job_id |-> job.id,
     score |-> score, rationale |-> why, status |-> app.status]

\* results.sort(key=lambda r: r["score"], reverse=True): stable, a result
\* goes behind the results whose score is not lower
RECURSIVE InsertByScore(_, _)
InsertByScore(sorted, x) ==
    IF sorted = <<>> THEN <<x>>
    ELSE IF RLt(Head(sorted).score, x.score) THEN <<x>> \o sorted
    ELSE <<Head(sorted)>> \o InsertByScore(Tail(sorted), x)

RECURSIVE SortByScore(_, _)
SortByScore(xs, acc) ==
    IF xs = <<>> THEN acc ELSE SortByScore(Tail(xs), InsertByScore(acc, Head(xs)))

\* one round of the loop of screen_job, lines 23-42
ScreenOne(d, job, c, score, why) ==
    [d EXCEPT !.applications = upsert(d, job.id, c.id, score, why)]

\* the loop of screen_job: the database after the candidates were visited
RECURSIVE ScreenAll(_, _, _)
ScreenAll(d, job, candidates) ==
    IF candidates = <<>> THEN d
    ELSE ScreenAll(ScreenOne(d, job, Head(candidates),
                             token_overlap_score(job.description, Head(candidates).resume_text),
                             rationale(job.description, Head(candidates).resume_text)),
                   job, Tail(candidates))

\* the results list before it is sorted; screened is the database after the
\* loop (a row is not touched again once its candidate was visited)
ResultOf(screened, job, c) ==
    ScreeningResult(Upserted(screened, job.id, c.id), c, job,
                    token_overlap_score(job.description, c.resume_text),
                    rationale(job.description, c.resume_text))

ResultsOf(screened, job, candidates) ==
    [k \in 1..Len(candidates) |-> ResultOf(screened, job, candidates[k])]

\* CandidateRepository.list_all: newest first (rows are in insertion order)
list_all_candidates(d) ==
    [k \in 1..Len(d.candidates) |-> d.candidates[Len(d.candidates) + 1 - k]]

Screened(screened, job, candidates) ==
    [db |-> screened, results |-> SortByScore(ResultsOf(screened, job, candidates), <<>>)]

\* ScreeningService.screen_job for a job that exists
screen_job(d, job) ==
    Screened(ScreenAll(d, job, list_all_candidates(d)), job, list_all_candidates(d))

(***************************************************************************)
(* Specification of the screening service, one request at a time: jobs and *)
(* candidates are created, and jobs are screened, in any order.            *)
(***************************************************************************)
JobIds == {1, 2}           \* primary keys of the jobs table
CandidateIds == {1, 2}     \* primary keys of the candidates table
MaxScreenings == 3         \* calls of the service and of the repository
StaleCalls == {1}          \* how many of the calls may be repository calls
StaleScore == Rat(1, 4)    \* a score no screened pair of the texts below gets
StaleRationale == <<"o", "l", "d">>

ScreenJobTexts == { <<"b", " ", "b", " ", "c", " ", "a">> }
ScreenResumeTexts == { <<"B", " ", "c">>, <<>> }

EmptyDatabase ==
    [jobs |-> <<>>, candidates |-> <<>>, applications |-> <<>>,
     interview_sessions |-> <<>>, interview_messages |-> <<>>]

ScreenInit ==
    /\ EngineIdle
    /\ PlannerOff
    /\ FnOff
    /\ db = EmptyDatabase
    /\ calls = <<>>

\* JobRepository.create
CreateJob ==
    /\ Len(db.jobs) + 1 \in JobIds
    /\ \E description \in ScreenJobTexts :
          db' = [db EXCEPT !.jobs = Append(@, [id |-> Len(db.jobs) + 1,
                                               description |-> description])]
    /\ UNCHANGED calls
    /\ UNCHANGED sessionVars
    /\ UNCHANGED planVars
    /\ UNCHANGED fnVars

\* CandidateRepository.create
CreateCandidate ==
    /\ Len(db.candidates) + 1 \in CandidateIds
    /\ \E resume \in ScreenResumeTexts :
          db' = [db EXCEPT !.candidates = Append(@, [id |-> Len(db.candidates) + 1,
                                                     resume_text |-> resume])]
    /\ UNCHANGED calls
    /\ UNCHANGED sessionVars
    /\ UNCHANGED planVars
    /\ UNCHANGED fnVars

\* service.screen_job(job_id=...)
ScreenJob ==
    /\ Len(calls) < MaxScreenings
    /\ \E j \in 1..Len(db.jobs) :
          \E outcome \in { screen_job(db, db.jobs[j]) } :
              /\ db' = outcome.db
              /\ calls' = Append(calls, [op |-> "screen_job", pc |-> "done",
                                         job_id |-> db.jobs[j].id,
                                         response |-> Some(outcome.results)])
    /\ UNCHANGED sessionVars
    /\ UNCHANGED planVars
    /\ UNCHANGED fnVars

\* ApplicationRepository.upsert called on its own, with a score and a
\* rationale that screen_job does not compute for the pair
UpsertApplication ==
    /\ Len(calls) < MaxScreenings
    /\ Cardinality({ k \in 1..Len(calls) : calls[k].op = "upsert" }) + 1 \in StaleCalls
    /\ \E j \in 1..Len(db.jobs), c \in 1..Len(db.candidates) :
          /\ db' = [db EXCEPT !.applications =
                        upsert(db, db.jobs[j].id, db.candidates[c].id,
                               StaleScore, StaleRationale)]
          /\ calls' = Append(calls, [op |-> "upsert", pc |-> "done",
                                     job_id |-> db.jobs[j].id,
                                     response |-> Some(db.candidates[c].id)])
    /\ UNCHANGED sessionVars
    /\ UNCHANGED planVars
    /\ UNCHANGED fnVars

ScreenNext == CreateJob \/ CreateCandidate \/ ScreenJob \/ UpsertApplication

ScreenSpec == ScreenInit /\ [][ScreenNext]_vars

(***************************************************************************)
(* Properties of the screening service (specification ScreenSpec).         *)
(***************************************************************************)
ScreeningOn == db # <<>> /\ calls # <<>> /\ calls[Len(calls)].op = "screen_job"

\* this step is a screen_job call
ScreenJobReturns ==
    /\ db # <<>>
    /\ Len(calls') = Len(calls) + 1
    /\ calls'[Len(calls')].op = "screen_job"

\* at most one application row per (job_id, candidate_id)
OneRowPerPair ==
    \A a, b \in 1..Len(db.applications) :
        (/\ db.applications[a].job_id = db.applications[b].job_id
         /\ db.applications[a].candidate_id = db.applications[b].candidate_id) => a = b

\* the call that has just returned gave one result per candidate, highest
\* score first, each result showing the row of its pair
LastResults ==
    LET results == calls[Len(calls)].response[1]
        job_id == calls[Len(calls)].job_id
    IN  /\ Len(results) = Len(db.candidates)
        /\ \A c \in 1..Len(db.candidates) :
              Cardinality({ k \in 1..Len(results) :
                               results[k].candidate_id = db.candidates[c].id }) = 1
        /\ \A i, k \in 1..Len(results) : i < k => RLe(results[k].score, results[i].score)
        /\ \A k \in 1..Len(results) :
              \E a \in 1..Len(db.applications) :
                  /\ db.applications[a].id = results[k].application_id
                  /\ db.applications[a].job_id = job_id
                  /\ results[k].job_id = job_id
                  /\ db.applications[a].candidate_id = results[k].candidate_id
                  /\ db.applications[a].score = results[k].score
                  /\ db.applications[a].rationale = results[k].rationale
                  /\ db.applications[a].status = results[k].status

\* a screen_job call returns the results described by LastResults
ResultsReturned ==
    ScreenJobReturns => LastResults'

\* a screen_job call keeps the id, the pair and the status of every row and
\* leaves each row of the screened job with the score and the rationale of
\* its pair
RowsKept ==
    ScreenJobReturns =>
        /\ Len(db'.applications) >= Len(db.applications)
        /\ \A a \in 1..Len(db.applications) :
              /\ db'.applications[a].id = db.applications[a].id
              /\ db'.applications[a].job_id = db.applications[a].job_id
              /\ db'.applications[a].candidate_id = db.applications[a].candidate_id
              /\ db'.applications[a].status = db.applications[a].status
        /\ \A a \in 1..Len(db'.applications) :
              db'.applications[a].job_id = calls'[Len(calls')].job_id =>
                 \E j \in 1..Len(db.jobs), c \in 1..Len(db.candidates) :
                     /\ db.jobs[j].id = db'.applications[a].job_id
                     /\ db.candidates[c].id = db'.applications[a].candidate_id
                     /\ db'.applications[a].score
                            = token_overlap_score(db.jobs[j].description,
                                                  db.candidates[c].resume_text)
                     /\ db'.applications[a].rationale
                            = rationale(db.jobs[j].description, db.candidates[c].resume_text)

\* C30: after any sequence of sequential screen_job calls over any jobs and
\* candidates there is at most one application row per (job_id,
\* candidate_id) pair; re-screening a pair updates the score and rationale of
\* the existing row and leaves its id and status unchanged; each call returns
\* exactly one result per candidate, ordered by score from highest to lowest
C30_ScreeningUpserts ==
    /\ [] (ScreeningOn => OneRowPerPair)
    /\ [][RowsKept /\ ResultsReturned]_vars

\* one job screened over two candidates, the row of the first candidate
\* overwritten with a stale score, the job screened again: still two rows,
\* the stale score gone, the same results as the first time, and the
\* candidate listed second comes first because of the higher score
C30_Witness ==
    /\ ScreeningOn
    /\ Len(calls) = 3
    /\ calls[1].op = "screen_job"
    /\ calls[2].op = "upsert"
    /\ calls[2].job_id = calls[1].job_id
    /\ calls[3].job_id = calls[1].job_id
    /\ Len(calls[1].response[1]) = 2
    /\ calls[3].response[1] = calls[1].response[1]
    /\ Len(db.applications) = 2
    /\ \A a \in 1..2 : db.applications[a].score # StaleScore
    /\ calls[3].response[1][1].candidate_id = 1
    /\ RLt(calls[3].response[1][2].score, calls[3].response[1][1].score)

====
